---- MODULE Spec2Model ----
(***************************************************************************)
(* Model of the privacy-compliance core of eduflow-learning-analytics:     *)
(* PrivacyUtils (scripts/utils/privacy_utils.py) and MongoDBClient         *)
(* (scripts/utils/mongodb_client.py).                                      *)
(*                                                                         *)
(* Python values are tagged records:                                       *)
(*   [t |-> "str",  v |-> <<chars>>]      a str, as the tuple of its chars *)
(*   [t |-> "int",  v |-> <<digits>>]     an int, by its decimal digits    *)
(*   [t |-> "none"]                       None                             *)
(*   [t |-> "dict", v |-> [key |-> val]]  a dict (keys are strings)        *)
(*   [t |-> "list", v |-> <<vals>>]       a list                           *)
(*   [t |-> "hex", alg, of, len]          prefix of a hex digest of `of`   *)
(*   [t |-> "anon", alg, of]              "anon_" + 16 hex chars           *)
(*   [t |-> "fernet", of, iv]             base64 of a Fernet token         *)
(* A digest is an ideal hash: it is determined by the algorithm and the    *)
(* hashed string and two digests are equal only for equal inputs.          *)
(***************************************************************************)
EXTENDS Integers, Sequences, FiniteSets, TLC

VARIABLES
    anonymization_enabled, \* PrivacyUtils.anonymization_enabled
    ferpa_enabled,         \* PrivacyUtils.ferpa_enabled
    pc,                    \* "idle": the caller is about to call; "returned"
    op,                    \* the operation of the last call
    records,               \* the caller's input list, as it is after the call
    given,                 \* the input list as it was when the call was made
    result,                \* what the call returned, or that it raised
    issued,                \* history: <<string form, anonymous_id>> handed out
    data,                  \* validate: the inspected structure after the call
    db,                    \* store: collection name -> sequence of documents
    audit_logs,            \* store: the audit_logs collection
    connected,             \* store: the connection is up
    next_oid               \* store: the number of ObjectIds generated so far

vars == <<anonymization_enabled, ferpa_enabled, pc, op, records, given,
          result, issued, data, db, audit_logs, connected, next_oid>>

----------------------------------------------------------------------------
(* Characters and strings *)

Digits == {"0", "1", "2", "3", "4", "5", "6", "7", "8", "9"}

LowerLetters == {"a", "b", "c", "d", "e", "f", "g", "h", "i", "j", "k", "l",
                 "m", "n", "o", "p", "q", "r", "s", "t", "u", "v", "w", "x",
                 "y", "z"}

UpperLetters == {"A", "B", "C", "D", "E", "F", "G", "H", "I", "J", "K", "L",
                 "M", "N", "O", "P", "Q", "R", "S", "T", "U", "V", "W", "X",
                 "Y", "Z"}

Letters == LowerLetters \cup UpperLetters

\* \w of Python's re for the characters of the model
WordChars == Letters \cup Digits \cup {"_"}

\* A lone surrogate (such as '\ud800'): a str character that str.encode()
\* cannot encode as UTF-8.
Surrogate == "^"

StrV(chars) == [t |-> "str", v |-> chars]

IntV(digits) == [t |-> "int", v |-> digits]

NoneV == [t |-> "none"]

DictV(f) == [t |-> "dict", v |-> f]

ListV(s) == [t |-> "list", v |-> s]

IsStr(x) == x.t = "str"

IsDict(x) == x.t = "dict"

IsList(x) == x.t = "list"

\* isinstance(value, str): digests and ciphertexts are str objects too
IsPyStr(x) == x.t \in {"str", "hex", "anon", "fernet"}

Stars(n) == [k \in 1..n |-> "*"]

\* s[i..j] (1-based, inclusive); empty when j < i
Slice(s, i, j) == [k \in 1..(j - i + 1) |-> s[i + k - 1]]

AllIn(s, i, j, C) == \A k \in i..j : s[k] \in C

\* \b between s[i] and s[i+1], for 0 <= i <= Len(s)
WordAt(s, i) == i \in 1..Len(s) /\ s[i] \in WordChars

Boundary(s, i) == WordAt(s, i) # WordAt(s, i + 1)

----------------------------------------------------------------------------
(* self.pii_patterns, as re.search(pattern, value) on a tuple of chars *)

EmailLocalChars == Letters \cup Digits \cup {".", "_", "%", "+", "-"}

EmailDomainChars == Letters \cup Digits \cup {".", "-"}

EmailTldChars == Letters \cup {"|"}

\* \b[A-Za-z0-9._%+-]+@[A-Za-z0-9.-]+\.[A-Z|a-z]{2,}\b
SearchEmail(s) ==
    \E p \in 1..Len(s) :
        /\ s[p] = "@"
        /\ \E i \in 1..(p - 1) :
              /\ AllIn(s, i, p - 1, EmailLocalChars)
              /\ Boundary(s, i - 1)
        /\ \E k \in (p + 1)..(Len(s) - 3) :
              /\ s[k + 1] = "."
              /\ AllIn(s, p + 1, k, EmailDomainChars)
              /\ \E m \in (k + 3)..Len(s) :
                    /\ AllIn(s, k + 2, m, EmailTldChars)
                    /\ Boundary(s, m)

\* \b\d{3}[-.]?\d{3}[-.]?\d{4}\b
SearchPhone(s) ==
    \E i \in 1..Len(s), a \in 0..1, b \in 0..1 :
        LET e == i + 9 + a + b IN
        /\ e <= Len(s)
        /\ Boundary(s, i - 1)
        /\ AllIn(s, i, i + 2, Digits)
        /\ (a = 1 => s[i + 3] \in {"-", "."})
        /\ AllIn(s, i + 3 + a, i + 5 + a, Digits)
        /\ (b = 1 => s[i + 6 + a] \in {"-", "."})
        /\ AllIn(s, i + 6 + a + b, e, Digits)
        /\ Boundary(s, e)

\* \b\d{3}-?\d{2}-?\d{4}\b
SearchSsn(s) ==
    \E i \in 1..Len(s), a \in 0..1, b \in 0..1 :
        LET e == i + 8 + a + b IN
        /\ e <= Len(s)
        /\ Boundary(s, i - 1)
        /\ AllIn(s, i, i + 2, Digits)
        /\ (a = 1 => s[i + 3] = "-")
        /\ AllIn(s, i + 3 + a, i + 4 + a, Digits)
        /\ (b = 1 => s[i + 5 + a] = "-")
        /\ AllIn(s, i + 5 + a + b, e, Digits)
        /\ Boundary(s, e)

\* \b\d{6,10}\b
SearchStudentId(s) ==
    \E i \in 1..Len(s), n \in 6..10 :
        LET e == i + n - 1 IN
        /\ e <= Len(s)
        /\ Boundary(s, i - 1)
        /\ AllIn(s, i, e, Digits)
        /\ Boundary(s, e)

\* The keys of self.pii_patterns, in the dict's order
PatternKinds == <<"email", "phone", "ssn", "student_id">>

\* re.search(self.pii_patterns[kind], value) for a str value. A digest
\* ("hex", "anon") is a run of more than 10 word characters and a "fernet"
\* value is base64 of base64 text (letters and digits, then "=" padding):
\* neither holds "@" nor a digit run between two \b, so no pattern matches.
ReSearch(kind, value) ==
    /\ IsStr(value)
    /\ CASE kind = "email" -> SearchEmail(value.v)
         [] kind = "phone" -> SearchPhone(value.v)
         [] kind = "ssn" -> SearchSsn(value.v)
         [] kind = "student_id" -> SearchStudentId(value.v)

----------------------------------------------------------------------------
(* PrivacyUtils: configuration *)

\* self.pii_fields, in list order
pii_fields == <<"email", "login_id", "name", "sortable_name", "short_name",
                "phone", "address", "ssn", "student_number", "sis_user_id">>

\* self.sensitive_fields
sensitive_fields == {"email", "phone", "address", "ssn", "student_number"}

PiiFieldSet == {pii_fields[k] : k \in DOMAIN pii_fields}

----------------------------------------------------------------------------
(* dict operations *)

\* d[k] = val
DictSet(d, k, val) == [x \in DOMAIN d \cup {k} |-> IF x = k THEN val ELSE d[x]]

\* del d[k]
DictDel(d, k) == [x \in DOMAIN d \ {k} |-> d[x]]

----------------------------------------------------------------------------
(* PrivacyUtils: masking, hashing, encryption *)

\* The least index of character c in s, 0 when s has none
IndexOf(s, c) ==
    IF \E k \in 1..Len(s) : s[k] = c
    THEN CHOOSE k \in 1..Len(s) : s[k] = c /\ \A j \in 1..(k - 1) : s[j] # c
    ELSE 0

\* MaskEmail gone wrong: every character of the local part is replaced
MaskEmailAllStars(email) ==
    LET at == IndexOf(email, "@")
    IN IF at > 0 THEN Stars(at - 1) \o Slice(email, at, Len(email)) ELSE email

MaskEmail(email) ==
    LET at == IndexOf(email, "@")
        local == Slice(email, 1, at - 1)
        domain == Slice(email, at + 1, Len(email))
        masked_local ==
            IF Len(local) > 2
            THEN <<local[1]>> \o Stars(Len(local) - 2) \o <<local[Len(local)]>>
            ELSE Stars(Len(local))
    IN IF at > 0 THEN masked_local \o <<"@">> \o domain ELSE email

MaskPhone(phone) ==
    LET digits == SelectSeq(phone, LAMBDA c : c \in Digits)
        n == Len(digits)
    IN IF n >= 10
       THEN <<"*", "*", "*", "-", "*", "*", "*", "-">> \o Slice(digits, n - 3, n)
       ELSE <<"*", "*", "*", "-", "*", "*", "*", "-", "*", "*", "*", "*">>

MaskSsn(ssn) == <<"*", "*", "*", "-", "*", "*", "-", "*", "*", "*", "*">>

\* str(value) of a scalar value
PyStr(value) ==
    CASE value.t = "str" -> value.v
      [] value.t = "int" -> value.v
      [] value.t = "none" -> <<"N", "o", "n", "e">>

\* value.encode() succeeds: UTF-8 encodes every str without a lone surrogate
Encodable(s) == \A k \in 1..Len(s) : s[k] # Surrogate

\* hashlib.<alg>(s.encode()).hexdigest()[:n]
HexDigest(alg, s, n) == [t |-> "hex", alg |-> alg, of |-> s, len |-> n]

\* A call that raised: no value is returned
Raised == [raised |-> TRUE]

Returned(val) == [raised |-> FALSE, value |-> val]

\* GenerateAnonymousId gone wrong: the digest prefix is cut to no characters
GenerateAnonymousIdNoDigest(original_id) ==
    IF Encodable(original_id)
    THEN Returned([t |-> "anon", alg |-> "sha256", of |-> <<>>])
    ELSE Raised

\* Both the SHA-256 branch and the MD5 fallback start with
\* original_id.encode(): a str that cannot be encoded raises out of the
\* handler, anything else gets the SHA-256 prefix.
GenerateAnonymousId(original_id) ==
    IF Encodable(original_id)
    THEN Returned([t |-> "anon", alg |-> "sha256", of |-> original_id])
    ELSE Raised

HashField(value) ==
    IF Encodable(value)
    THEN Returned(HexDigest("sha256", value, 64))
    ELSE Raised

\* EncryptField gone wrong: the hashing fallback is taken on every call
EncryptFieldAlwaysFallback(value, iv) == HashField(value)

\* Fernet.encrypt draws a fresh IV and reads the clock: iv stands for both.
\* A failing encrypt falls back to _hash_field, which fails the same way.
EncryptField(value, iv) ==
    IF Encodable(value)
    THEN Returned([t |-> "fernet", of |-> value, iv |-> iv])
    ELSE HashField(value)

----------------------------------------------------------------------------
(* PrivacyUtils._anonymize_record: masks the top-level str values of the   *)
(* dict it is given, in place, and returns that dict.                       *)

MaskValue(value) ==
    IF ~IsStr(value) THEN value
    ELSE IF ReSearch("email", value) THEN StrV(MaskEmail(value.v))
    ELSE IF ReSearch("phone", value) THEN StrV(MaskPhone(value.v))
    ELSE IF ReSearch("ssn", value) THEN StrV(MaskSsn(value.v))
    ELSE value

\* heap: object reference -> dict contents; ref: the dict passed in
AnonymizeRecord(heap, ref) ==
    [heap EXCEPT ![ref] = [k \in DOMAIN heap[ref] |-> MaskValue(heap[ref][k])]]

----------------------------------------------------------------------------
(* The three anonymize operations. Each record is transformed on its own:  *)
(* a step takes the caller's dict and yields                               *)
(*   raised  the transform raised (the handler of the operation re-raises) *)
(*   src     the caller's dict after the step                              *)
(*   out     the dict appended to the returned list.                       *)
(* Objects live in a two-cell heap: "src" is the caller's dict, "dst" the  *)
(* dict that dict.copy() allocates.                                        *)

\* DictCopy gone wrong: no copy is taken, the caller's dict is used
DictCopyAlias(heap, ref) == [ref |-> ref, heap |-> heap]

\* record.copy(): a new dict with the same items
DictCopy(heap, ref) == [ref |-> "dst", heap |-> [heap EXCEPT !["dst"] = heap[ref]]]

StepResult(raised, heap, ref) ==
    [raised |-> raised, src |-> DictV(heap["src"]), out |-> DictV(heap[ref])]

\* lines 89-102: for field in self.pii_fields, from the k-th field on
RECURSIVE HashPiiFields(_, _, _)
HashPiiFields(d, k, iv) ==
    IF k > Len(pii_fields) THEN [raised |-> FALSE, d |-> d]
    ELSE LET field == pii_fields[k] IN
         IF field \notin DOMAIN d THEN HashPiiFields(d, k + 1, iv)
         ELSE LET derived == IF field \in sensitive_fields
                             THEN EncryptField(PyStr(d[field]), iv)
                             ELSE HashField(PyStr(d[field]))
                  name == IF field \in sensitive_fields
                          THEN field \o "_encrypted"
                          ELSE field \o "_hash"
              IN IF derived.raised THEN [raised |-> TRUE, d |-> d]
                 ELSE HashPiiFields(DictDel(DictSet(d, name, derived.value), field),
                                    k + 1, iv)

\* RemovePiiFields gone wrong: only the sensitive fields are removed
RemoveSensitiveFields(d) == [x \in DOMAIN d \ sensitive_fields |-> d[x]]

\* lines 144-146, 177-179: for field in self.pii_fields: del record[field]
RemovePiiFields(d) == [x \in DOMAIN d \ PiiFieldSet |-> d[x]]

\* StudentStep gone wrong: the PII fields are hashed and encrypted first, the
\* free text is masked afterwards
StudentStepHashFirst(student, now, i) ==
    IF ~IsDict(student) THEN [raised |-> TRUE, src |-> student, out |-> student]
    ELSE
    LET c == DictCopy([src |-> student.v, dst |-> <<>>], "src")
        ref == c.ref
        has_id == "student_id" \in DOMAIN student.v
        aid == IF has_id THEN GenerateAnonymousId(PyStr(student.v["student_id"]))
               ELSE Raised
        pf == HashPiiFields(c.heap[ref], 1, <<now, i>>)
        h1 == AnonymizeRecord([c.heap EXCEPT ![ref] = pf.d], ref)
        h2 == IF has_id /\ ~aid.raised
              THEN [h1 EXCEPT ![ref] = DictSet(@, "anonymous_id", aid.value)]
              ELSE h1
        h4 == [h2 EXCEPT ![ref] =
                  DictSet(DictSet(@, "anonymized_at", StrV(now)),
                          "privacy_level",
                          StrV(<<"f", "e", "r", "p", "a", "_", "c", "o", "m",
                                 "p", "l", "i", "a", "n", "t">>))]
    IN IF (has_id /\ aid.raised) \/ pf.raised THEN StepResult(TRUE, h1, ref)
       ELSE StepResult(FALSE, h4, ref)

\* One iteration of the loop of anonymize_student_data
StudentStep(student, now, i) ==
    IF ~IsDict(student) THEN [raised |-> TRUE, src |-> student, out |-> student]
    ELSE
    LET c == DictCopy([src |-> student.v, dst |-> <<>>], "src")
        ref == c.ref
        h1 == AnonymizeRecord(c.heap, ref)
        has_id == "student_id" \in DOMAIN h1["src"]
        aid == IF has_id THEN GenerateAnonymousId(PyStr(h1["src"]["student_id"]))
               ELSE Raised
        h2 == IF has_id
              THEN [h1 EXCEPT ![ref] = DictSet(@, "anonymous_id", aid.value)]
              ELSE h1
    IN IF has_id /\ aid.raised THEN StepResult(TRUE, h1, ref)
       ELSE LET pf == HashPiiFields(h2[ref], 1, <<now, i>>)
                h3 == [h2 EXCEPT ![ref] = pf.d]
                h4 == [h3 EXCEPT ![ref] =
                          DictSet(DictSet(@, "anonymized_at", StrV(now)),
                                  "privacy_level",
                                  StrV(<<"f", "e", "r", "p", "a", "_", "c", "o", "m",
                                         "p", "l", "i", "a", "n", "t">>))]
            IN IF pf.raised THEN StepResult(TRUE, h3, ref)
               ELSE StepResult(FALSE, h4, ref)

\* One iteration of the loop of anonymize_attendance_data
AttendanceStep(record, now, i) ==
    IF ~IsDict(record) THEN [raised |-> TRUE, src |-> record, out |-> record]
    ELSE
    LET c == DictCopy([src |-> record.v, dst |-> <<>>], "src")
        ref == c.ref
        h1 == AnonymizeRecord(c.heap, ref)
        has_id == "student_id" \in DOMAIN h1["src"]
        aid == IF has_id THEN GenerateAnonymousId(PyStr(h1["src"]["student_id"]))
               ELSE Raised
        h2 == IF has_id
              THEN [h1 EXCEPT ![ref] =
                       DictDel(DictSet(@, "anonymous_id", aid.value), "student_id")]
              ELSE h1
        h3 == [h2 EXCEPT ![ref] = RemovePiiFields(@)]
        h4 == [h3 EXCEPT ![ref] = DictSet(@, "anonymized_at", StrV(now))]
    IN IF has_id /\ aid.raised THEN StepResult(TRUE, h1, ref)
       ELSE StepResult(FALSE, h4, ref)

\* One iteration of the loop of anonymize_library_data
LibraryStep(record, now, i) ==
    IF ~IsDict(record) THEN [raised |-> TRUE, src |-> record, out |-> record]
    ELSE
    LET c == DictCopy([src |-> record.v, dst |-> <<>>], "src")
        ref == c.ref
        h1 == AnonymizeRecord(c.heap, ref)
        has_id == "student_id" \in DOMAIN h1["src"]
        aid == IF has_id THEN GenerateAnonymousId(PyStr(h1["src"]["student_id"]))
               ELSE Raised
        h2 == IF has_id
              THEN [h1 EXCEPT ![ref] =
                       DictDel(DictSet(@, "anonymous_id", aid.value), "student_id")]
              ELSE h1
        h3 == [h2 EXCEPT ![ref] = RemovePiiFields(@)]
        h4 == [h3 EXCEPT ![ref] = DictSet(@, "anonymized_at", StrV(now))]
    IN IF has_id /\ aid.raised THEN StepResult(TRUE, h1, ref)
       ELSE StepResult(FALSE, h4, ref)

\* BatchCall gone wrong: a step that raises is skipped and the loop goes on
BatchCallSkipping(steps, batch) ==
    LET idx == SelectSeq([i \in DOMAIN steps |-> i], LAMBDA i : ~steps[i].raised)
    IN [raised |-> FALSE,
        value |-> [k \in DOMAIN idx |-> steps[idx[k]].out],
        after |-> [i \in DOMAIN batch |-> steps[i].src]]

\* The loop over the batch: the steps run in order until one raises; the
\* except clause of the operation logs and re-raises. `after` is the
\* caller's list when the call ends.
BatchCall(steps, batch) ==
    LET bad == {i \in DOMAIN steps : steps[i].raised}
        stop == IF bad = {} THEN Len(batch) + 1
                ELSE CHOOSE i \in bad : \A j \in bad : i <= j
    IN [raised |-> bad # {},
        value |-> [i \in DOMAIN steps |-> steps[i].out],
        after |-> [i \in DOMAIN batch |->
                      IF i <= stop THEN steps[i].src ELSE batch[i]]]

\* `if not self.anonymization_enabled: return students`
PassThrough(batch) == [raised |-> FALSE, value |-> batch, after |-> batch]

\* clock[i] is what datetime.utcnow().isoformat() gives while the i-th
\* record is anonymized
AnonymizeStudents(enabled, students, clock) ==
    IF ~enabled THEN PassThrough(students)
    ELSE BatchCall([i \in DOMAIN students |-> StudentStep(students[i], clock[i], i)],
                   students)

AnonymizeAttendance(enabled, attendance_records, clock) ==
    IF ~enabled THEN PassThrough(attendance_records)
    ELSE BatchCall([i \in DOMAIN attendance_records |->
                       AttendanceStep(attendance_records[i], clock[i], i)],
                   attendance_records)

AnonymizeLibrary(enabled, library_records, clock) ==
    IF ~enabled THEN PassThrough(library_records)
    ELSE BatchCall([i \in DOMAIN library_records |->
                       LibraryStep(library_records[i], clock[i], i)],
                   library_records)

----------------------------------------------------------------------------
(* The inputs of the anonymize operations *)

\* The longest batch a caller passes
MaxBatch == 2

Absent == [t |-> "absent"]

\* The dict of the fields of cands that are present
MkDict(cands) ==
    DictV([k \in {x \in DOMAIN cands : cands[x] # Absent} |-> cands[k]])

Id1001 == <<"1", "0", "0", "1">>

Id1002 == <<"1", "0", "0", "2">>

EmailJo == <<"j", "o", "@", "x", ".", "c", "o", "m">>

EmailJohn == <<"j", "o", "h", "n", "@", "x", ".", "c", "o", "m">>

NameAl == <<"A", "l">>

PhoneText == <<"c", "a", "l", "l", " ", "5", "5", "5", "-", "1", "2", "3", "-",
               "4", "5", "6", "7">>

\* str values that str.encode() rejects
BadId == <<"1", "0", Surrogate>>

BadName == <<"A", Surrogate>>

\* datetime.utcnow().isoformat() at two instants, the second one with
\* microsecond = 0
Times == {<<"2", "0", "2", "6", "-", "0", "1", "-", "0", "2", "T", "0", "3", ":",
            "0", "4", ":", "0", "5", ".", "6", "7", "8", "9", "0", "1">>,
          <<"2", "0", "2", "6", "-", "0", "1", "-", "0", "2", "T", "0", "3", ":",
            "0", "4", ":", "0", "6">>}

\* Well-formed raw records: an identifier (int or str), a sensitive PII
\* field, a non-sensitive PII field
PlainRecords ==
    {MkDict([student_id |-> sid, email |-> em, name |-> nm]) :
        sid \in {Absent, IntV(Id1001), StrV(Id1001), StrV(Id1002)},
        em \in {Absent, StrV(EmailJo)},
        nm \in {Absent, StrV(NameAl)}}

\* Records of other shapes: free text only, a record that already carries
\* derived fields, values that cannot be encoded, and None
OddRecords ==
    {DictV([notes |-> StrV(PhoneText)]),
     DictV([student_id |-> StrV(Id1001), email |-> StrV(EmailJohn),
            email_hash |-> StrV(NameAl), name |-> StrV(PhoneText),
            name_encrypted |-> StrV(NameAl)]),
     DictV([student_id |-> StrV(BadId)]),
     DictV([student_id |-> IntV(Id1002), name |-> StrV(BadName)]),
     NoneV}

RawRecords == PlainRecords \cup OddRecords

EmailJ == <<"j", "@", "x", ".", "c", "o", "m">>

EmailJoe == <<"j", "o", "e", "@", "x", ".", "c", "o", "m">>

SsnText == <<"1", "2", "3", "-", "4", "5", "-", "6", "7", "8", "9">>

\* An email address and a phone number in one text
MixedText == EmailJo \o <<" ", "5", "5", "5", "-", "1", "2", "3", "-", "4", "5", "6", "7">>

\* An email address inside a sentence
MailText == <<"m", "a", "i", "l", " ">> \o EmailJohn \o <<" ", "n", "o", "w">>

\* Values of a free-text field: addresses with a local part of one to four
\* characters, text with a phone number, with a national-ID number, with
\* an address and a phone number, and text without any of them
Texts == {EmailJ, EmailJo, EmailJoe, EmailJohn, PhoneText, SsnText, MixedText,
          MailText, NameAl}

\* Records with a free-text field
TextRecords ==
    {MkDict([student_id |-> sid, notes |-> StrV(t), email |-> em]) :
        sid \in {Absent, IntV(Id1001)},
        t \in Texts,
        em \in {Absent, StrV(EmailJoe)}}

Batches ==
    UNION {[1..n -> RawRecords] : n \in 0..MaxBatch}
    \cup {<<record>> : record \in TextRecords}

----------------------------------------------------------------------------
(* State machine of the anonymizer: a caller that holds a batch, calls one *)
(* of the operations, and drops the outcome before the next call.          *)

NoResult == [raised |-> FALSE, value |-> <<>>]

\* The collections of the model: one with a unique index (student_id), one
\* without, and data_lineage, which the retention cleanup leaves alone. A
\* collection exists, empty, until its first write.
Collections == {"canvas_students", "attendance_records", "data_lineage"}

Init ==
    /\ anonymization_enabled \in BOOLEAN
    /\ ferpa_enabled \in BOOLEAN
    /\ pc = "idle"
    /\ op = "none"
    /\ records = <<>>
    /\ given = <<>>
    /\ result = NoResult
    /\ issued = {}
    /\ data = NoneV
    /\ db = [c \in Collections |-> <<>>]
    /\ audit_logs = <<>>
    /\ connected = TRUE
    /\ next_oid = 0

\* The <<string form of student_id, anonymous_id>> pairs of one call
IssuedBy(batch, call) ==
    IF call.raised THEN {}
    ELSE {<<PyStr(batch[i].v["student_id"]), call.value[i].v["anonymous_id"]>> :
             i \in {j \in DOMAIN batch :
                       /\ IsDict(batch[j])
                       /\ "student_id" \in DOMAIN batch[j].v
                       /\ "anonymous_id" \in DOMAIN call.value[j].v}}

AnonCall(name, batch, call) ==
    /\ pc' = "returned"
    /\ op' = name
    /\ given' = batch
    /\ records' = call.after
    /\ result' = IF call.raised THEN Raised ELSE Returned(call.value)
    /\ issued' = issued \cup IssuedBy(batch, call)
    /\ UNCHANGED <<anonymization_enabled, ferpa_enabled, data, db, audit_logs,
                   connected, next_oid>>

AnonymizeStudentData ==
    /\ pc = "idle"
    /\ \E batch \in Batches, now \in Times :
          AnonCall("student", batch,
                   AnonymizeStudents(anonymization_enabled, batch,
                               [i \in DOMAIN batch |-> now]))

AnonymizeAttendanceData ==
    /\ pc = "idle"
    /\ \E batch \in Batches, now \in Times :
          AnonCall("attendance", batch,
                   AnonymizeAttendance(anonymization_enabled, batch,
                               [i \in DOMAIN batch |-> now]))

AnonymizeLibraryData ==
    /\ pc = "idle"
    /\ \E batch \in Batches, now \in Times :
          AnonCall("library", batch,
                   AnonymizeLibrary(anonymization_enabled, batch,
                               [i \in DOMAIN batch |-> now]))

\* The caller is done with the outcome of the call
Discard ==
    /\ pc = "returned"
    /\ pc' = "idle"
    /\ op' = "none"
    /\ records' = <<>>
    /\ given' = <<>>
    /\ result' = NoResult
    /\ data' = NoneV
    /\ UNCHANGED <<anonymization_enabled, ferpa_enabled, issued, db, audit_logs,
                   connected, next_oid>>

NextAnon ==
    \/ AnonymizeStudentData
    \/ AnonymizeAttendanceData
    \/ AnonymizeLibraryData
    \/ Discard

SpecAnon == Init /\ [][NextAnon]_vars

----------------------------------------------------------------------------
(* Claims about the anonymize operations *)

\* The call returned a list, with anonymization enabled
Anonymized == pc = "returned" /\ anonymization_enabled /\ ~result.raised

\* The PII-list fields present on the i-th input record
PiiOn(i) == IF IsDict(given[i]) THEN PiiFieldSet \cap DOMAIN given[i].v ELSE {}

\* C1: with anonymization enabled, no PII-list field that is present on an
\* input record is on the corresponding output record under its own name,
\* for the student, attendance and library operations.
C1_PiiFieldsAbsent ==
    Anonymized =>
        /\ Len(result.value) = Len(given)
        /\ \A i \in DOMAIN given :
              \A f \in PiiOn(i) : f \notin DOMAIN result.value[i].v

C1_Witness ==
    /\ Anonymized
    /\ op = "attendance"
    /\ \E i \in DOMAIN given : {"email", "name"} \subseteq PiiOn(i)

\* C2 as claimed: for every operation and every PII-list field f present on
\* a record, the output has exactly one of f_hash and f_encrypted:
\* f_encrypted when f is sensitive, f_hash otherwise.
C2_Original ==
    Anonymized =>
        \A i \in DOMAIN given : \A f \in PiiOn(i) :
            LET out == DOMAIN result.value[i].v IN
            IF f \in sensitive_fields
            THEN (f \o "_encrypted") \in out /\ (f \o "_hash") \notin out
            ELSE (f \o "_hash") \in out /\ (f \o "_encrypted") \notin out

\* C2 as amended: anonymize_student_data replaces every PII-list field f
\* present on a record by one derived field, f_encrypted (a ciphertext) when
\* f is sensitive and f_hash (a digest) otherwise, and the other suffix is on
\* the output only if the input carried it; the attendance and library
\* operations remove f and add neither f_hash nor f_encrypted.
C2_DerivedFields ==
    Anonymized =>
        \A i \in DOMAIN given : \A f \in PiiOn(i) :
            LET in == DOMAIN given[i].v
                out == result.value[i].v
                enc == f \o "_encrypted"
                hash == f \o "_hash"
            IN IF op = "student"
               THEN IF f \in sensitive_fields
                    THEN /\ enc \in DOMAIN out
                         /\ out[enc].t = "fernet"
                         /\ hash \in DOMAIN out <=> hash \in in
                    ELSE /\ hash \in DOMAIN out
                         /\ out[hash].t = "hex"
                         /\ enc \in DOMAIN out <=> enc \in in
               ELSE /\ enc \in DOMAIN out <=> enc \in in
                    /\ hash \in DOMAIN out <=> hash \in in

C2_Witness ==
    /\ Anonymized
    /\ op = "student"
    /\ \E i \in DOMAIN given :
          /\ {"email", "name"} \subseteq PiiOn(i)
          /\ "email_hash" \in DOMAIN given[i].v
          /\ "email_encrypted" \in DOMAIN result.value[i].v

\* The input records that carry student_id
WithId == {i \in DOMAIN given : IsDict(given[i]) /\ "student_id" \in DOMAIN given[i].v}

\* No two pairs handed out so far, by any operation or call, give one string
\* form two pseudonyms or two string forms one pseudonym
IssuedOneToOne == \A p \in issued, q \in issued : (p[1] = q[1]) <=> (p[2] = q[2])

\* C3 as claimed: every input record that carries student_id yields an
\* output record with an anonymous_id, and pseudonyms correspond one to one
\* to the string forms of the identifiers, over all operations and calls.
C3_Original ==
    /\ (pc = "returned" /\ ~result.raised) =>
           /\ Len(result.value) = Len(given)
           /\ \A i \in WithId : "anonymous_id" \in DOMAIN result.value[i].v
    /\ IssuedOneToOne

\* C3 as amended: with anonymization enabled, every record of a returned
\* batch that carries student_id has an anonymous_id, a pseudonym; equal
\* string forms of student_id give equal pseudonyms and different string
\* forms different ones, whatever operation, call or position produced
\* them; a record without student_id gets no anonymous_id.
C3_AnonymousId ==
    /\ Anonymized =>
           \A i \in DOMAIN given :
               IF i \in WithId
               THEN /\ "anonymous_id" \in DOMAIN result.value[i].v
                    /\ result.value[i].v["anonymous_id"].t = "anon"
               ELSE "anonymous_id" \notin DOMAIN result.value[i].v
    /\ IssuedOneToOne

C3_Witness ==
    /\ Anonymized
    /\ op = "library"
    /\ \E i \in WithId, j \in WithId :
          /\ given[i].v["student_id"] = IntV(Id1002)
          /\ given[j].v["student_id"] = StrV(Id1002)
          /\ result.value[i].v["anonymous_id"] = result.value[j].v["anonymous_id"]
    /\ \E p \in issued : p[1] = Id1001

\* C4 as claimed, read with anonymization enabled: every record an
\* anonymize operation returns carries anonymized_at and privacy_level.
C4_Original ==
    Anonymized =>
        \A i \in DOMAIN result.value :
            {"anonymized_at", "privacy_level"} \subseteq DOMAIN result.value[i].v

\* C5: an anonymize call leaves the caller's list as it was given: same
\* length and order, every record with the same fields and values.
C5_InputUnchanged == pc = "returned" => records = given

C5_Witness ==
    /\ Anonymized
    /\ op = "student"
    /\ \E i \in DOMAIN given :
          /\ PiiOn(i) # {}
          /\ \E k \in DOMAIN given[i].v : MaskValue(given[i].v[k]) # given[i].v[k]
          /\ result.value[i] # given[i]
    /\ records = given

\* The transform of record r fails in operation o: r is no dict, or the
\* string form of its student_id, or (student operation) of a PII-list
\* field after masking, cannot be encoded
TransformFails(o, r) ==
    \/ ~IsDict(r)
    \/ /\ "student_id" \in DOMAIN r.v
       /\ ~Encodable(PyStr(r.v["student_id"]))
    \/ /\ o = "student"
       /\ \E f \in PiiFieldSet \cap DOMAIN r.v : ~Encodable(PyStr(MaskValue(r.v[f])))

Failing == {i \in DOMAIN given : TransformFails(op, given[i])}

\* C6 as claimed: when the transform of a record fails the call returns
\* normally, without the failing records and with every other record.
C6_Original ==
    (pc = "returned" /\ anonymization_enabled) =>
        /\ ~result.raised
        /\ Len(result.value) = Len(given) - Cardinality(Failing)

\* C6 as amended: when the transform of a record of the batch fails, the
\* anonymize call raises and returns no sequence; a call returns exactly
\* when no transform fails, and then has one output record per input record.
C6_FailureAborts ==
    (pc = "returned" /\ anonymization_enabled) =>
        /\ result.raised <=> Failing # {}
        /\ ~result.raised => Len(result.value) = Len(given)

C6_Witness ==
    /\ pc = "returned"
    /\ anonymization_enabled
    /\ result.raised
    /\ Len(given) = 2
    /\ Cardinality(Failing) = 1

----------------------------------------------------------------------------
(* PrivacyUtils.validate_ferpa_compliance *)

\* Dict keys that are not str objects. The key stands for the int 7;
\* key.lower() raises AttributeError on it.
NonStrKeys == {"<int 7>"}

\* key.lower(), for the keys of the model
Lower(key) ==
    CASE key = "Email" -> "email"
      [] key = "SSN" -> "ssn"
      [] OTHER -> key

\* A dict iterates its keys in insertion order; the dicts of the model are
\* taken to be filled in this order.
KeyOrder == <<"student_id", "anonymous_id", "email", "Email", "name", "SSN",
              "notes", "a", "b", "c", "tags", "email_hash", "name_hash",
              "email_encrypted", "name_encrypted", "anonymized_at",
              "privacy_level", "<int 7>">>

\* list(d.keys())
Keys(d) == SelectSeq(KeyOrder, LAMBDA k : k \in DOMAIN d)

\* The walk of check_for_pii reaches a key without .lower()
RECURSIVE WalkCrashes(_)
WalkCrashes(obj) ==
    IF IsDict(obj)
    THEN \E k \in DOMAIN obj.v : k \in NonStrKeys \/ WalkCrashes(obj.v[k])
    ELSE IF IsList(obj)
    THEN \E i \in DOMAIN obj.v : WalkCrashes(obj.v[i])
    ELSE FALSE

\* lines 316-319: the pattern hits of one dict value, in the order of
\* self.pii_patterns, from the k-th pattern on
RECURSIVE PatternHitsOf(_, _, _)
PatternHitsOf(value, current_path, k) ==
    IF k > Len(PatternKinds) THEN <<>>
    ELSE (IF ReSearch(PatternKinds[k], value)
          THEN <<current_path \o " (" \o PatternKinds[k] \o ")">>
          ELSE <<>>)
         \o PatternHitsOf(value, current_path, k + 1)

\* check_for_pii(obj, path): what it appends to pii_found, when the walk
\* does not crash
RECURSIVE CheckForPii(_, _), CheckDictKeys(_, _, _), CheckListItems(_, _, _)
CheckForPii(obj, path) ==
    IF IsDict(obj) THEN CheckDictKeys(obj.v, Keys(obj.v), path)
    ELSE IF IsList(obj) THEN CheckListItems(obj.v, 1, path)
    ELSE <<>>

CheckDictKeys(d, keys, path) ==
    IF keys = <<>> THEN <<>>
    ELSE LET key == Head(keys)
             value == d[key]
             current_path == IF path # "" THEN path \o "." \o key ELSE key
         IN (IF Lower(key) \in PiiFieldSet THEN <<current_path>> ELSE <<>>)
            \o (IF IsPyStr(value) THEN PatternHitsOf(value, current_path, 1)
                ELSE <<>>)
            \o CheckForPii(value, current_path)
            \o CheckDictKeys(d, Tail(keys), path)

CheckListItems(items, i, path) ==
    IF i > Len(items) THEN <<>>
    ELSE CheckForPii(items[i], path \o "[" \o ToString(i - 1) \o "]")
         \o CheckListItems(items, i + 1, path)

\* The dict returned by the except clause (lines 353-359)
ValidationError ==
    [compliant |-> FALSE,
     issues |-> <<"Validation error: 'int' object has no attribute 'lower'">>,
     recommendations |-> <<"Review data structure and try again">>]

\* OnWalkCrash gone wrong: the error is re-raised, as the anonymize
\* operations do
OnWalkCrashReraise == Raised

\* `except Exception as e:` around the whole body: log, return the error dict
OnWalkCrash == Returned(ValidationError)

\* validate_ferpa_compliance(data) with self.ferpa_enabled = ferpa
ValidateFerpaCompliance(ferpa, obj) ==
    IF WalkCrashes(obj) THEN OnWalkCrash
    ELSE
    LET pii_found == CheckForPii(obj, "")
        is_dict == IsDict(obj)
    IN Returned(
        [compliant |-> pii_found = <<>>,
         issues |->
             [k \in DOMAIN pii_found |-> "PII found in field: " \o pii_found[k]]
             \o (IF /\ is_dict
                    /\ "anonymized_at" \notin DOMAIN obj.v
                    /\ pii_found # <<>>
                 THEN <<"Data contains PII but lacks anonymization metadata">>
                 ELSE <<>>),
         recommendations |->
             (IF ~ferpa THEN <<"FERPA compliance mode is disabled">> ELSE <<>>)
             \o (IF pii_found # <<>>
                 THEN <<"Apply data anonymization before storing or sharing data">>
                 ELSE <<>>)
             \o (IF is_dict /\ "privacy_level" \notin DOMAIN obj.v
                 THEN <<"Add privacy_level metadata to indicate compliance status">>
                 ELSE <<>>)])

----------------------------------------------------------------------------
(* The inputs of validate: nested mappings and sequences *)

\* The longest list inside the inspected data
MaxListLen == 2

PlainText == <<"o", "k">>

\* Nine digits: matches both the ssn and the student_id pattern
NineDigits == <<"1", "2", "3", "4", "5", "6", "7", "8", "9">>

Leaves == {StrV(EmailJo), StrV(PlainText), IntV(Id1001)}

InnerDicts ==
    {DictV([c |-> x]) : x \in Leaves} \cup {DictV([k \in NonStrKeys |-> StrV(PlainText)])}

Lists == UNION {{ListV(f) : f \in [1..n -> Leaves \cup InnerDicts]} : n \in 1..MaxListLen}

MidDicts == {DictV([b |-> x]) : x \in Leaves \cup Lists \cup InnerDicts}

Nested == Leaves \cup {StrV(NineDigits)} \cup Lists \cup InnerDicts \cup MidDicts

\* What validate is called with: a mapping with a nested value, a field
\* whose name is on the PII list up to case, and the provenance fields; or
\* a list
ValidateInputs ==
    {MkDict([a |-> x, Email |-> e, anonymized_at |-> at, privacy_level |-> pl]) :
        x \in {Absent} \cup Nested,
        e \in {Absent, StrV(PlainText)},
        at \in {Absent} \cup {StrV(t) : t \in Times},
        pl \in {Absent, StrV(PlainText)}}
    \cup Lists

ValidateCall ==
    /\ pc = "idle"
    /\ \E d \in ValidateInputs :
          /\ given' = d
          /\ data' = d
          /\ result' = ValidateFerpaCompliance(ferpa_enabled, d)
    /\ pc' = "returned"
    /\ op' = "validate"
    /\ UNCHANGED <<anonymization_enabled, ferpa_enabled, records, issued, db,
                   audit_logs, connected, next_oid>>

NextValidate == ValidateCall \/ Discard

SpecValidate == Init /\ [][NextValidate]_vars

----------------------------------------------------------------------------
(* Claims about validate *)

Validated == pc = "returned" /\ op = "validate"

\* The detector as specified: the paths of the fields whose name is on the
\* PII list (case-insensitively) ...
RECURSIVE NamedFields(_, _)
NamedFields(obj, path) ==
    IF IsDict(obj)
    THEN UNION {LET cp == IF path # "" THEN path \o "." \o k ELSE k
                IN (IF Lower(k) \in PiiFieldSet THEN {cp} ELSE {})
                   \cup NamedFields(obj.v[k], cp) : k \in DOMAIN obj.v}
    ELSE IF IsList(obj)
    THEN UNION {NamedFields(obj.v[i], path \o "[" \o ToString(i - 1) \o "]") :
                   i \in DOMAIN obj.v}
    ELSE {}

\* ... and <<path, kind>> for every string value, at any depth of mappings
\* and sequences, that matches the pattern of that kind
RECURSIVE MatchingStrings(_, _)
MatchingStrings(obj, path) ==
    IF IsDict(obj)
    THEN UNION {MatchingStrings(obj.v[k], IF path # "" THEN path \o "." \o k ELSE k) :
                   k \in DOMAIN obj.v}
    ELSE IF IsList(obj)
    THEN UNION {MatchingStrings(obj.v[i], path \o "[" \o ToString(i - 1) \o "]") :
                   i \in DOMAIN obj.v}
    ELSE {<<path, PatternKinds[k]>> : k \in {j \in DOMAIN PatternKinds :
                                                ReSearch(PatternKinds[j], obj)}}

IssueSet == {result.value.issues[k] : k \in DOMAIN result.value.issues}

\* C7 as claimed, for inputs whose walk completes: compliant is false
\* exactly when a field name is on the PII list or a string value matches a
\* PII pattern, and each such hit has its issue, with the path and, for a
\* pattern hit, the kind.
C7_Original ==
    (Validated /\ ~WalkCrashes(given)) =>
        LET named == NamedFields(given, "")
            matching == MatchingStrings(given, "")
        IN /\ ~result.raised
           /\ result.value.compliant <=> (named = {} /\ matching = {})
           /\ \A f \in named : ("PII found in field: " \o f) \in IssueSet
           /\ \A m \in matching :
                  ("PII found in field: " \o m[1] \o " (" \o m[2] \o ")") \in IssueSet

\* C8 as claimed: every pattern-matching string at any depth (value of a
\* nested mapping, element of a sequence, element of a sequence inside a
\* mapping) is reported with its dotted/indexed path.
C8_Original ==
    (Validated /\ ~WalkCrashes(given)) =>
        \A m \in MatchingStrings(given, "") :
            \E k \in DOMAIN result.value.issues :
                result.value.issues[k] = "PII found in field: " \o m[1] \o " (" \o m[2] \o ")"

\* C9: validate never raises and leaves the inspected data as it was; its
\* result has compliant, issues and recommendations; when the walk crashes
\* the result is compliant=false with exactly one issue, the error.
C9_ValidateReturns ==
    Validated =>
        /\ ~result.raised
        /\ data = given
        /\ DOMAIN result.value = {"compliant", "issues", "recommendations"}
        /\ WalkCrashes(given) =>
              /\ ~result.value.compliant
              /\ Len(result.value.issues) = 1
              /\ result.value.issues[1] =
                     "Validation error: 'int' object has no attribute 'lower'"

C9_Witness ==
    /\ Validated
    /\ WalkCrashes(given)
    /\ NamedFields(given, "") # {}
    /\ ~result.raised
    /\ Len(result.value.issues) = 1

----------------------------------------------------------------------------
(* MongoDBClient: the collections. A collection is the sequence of its     *)
(* documents in insertion order; every stored document has an _id.         *)

\* The fields with a unique index, as _setup_indexes creates them, besides
\* _id
UniqueFields(c) ==
    CASE c = "canvas_students" -> {"student_id"}
      [] OTHER -> {}

ObjectId(n) == [t |-> "oid", v |-> n]

\* The index key of a document: a missing field is indexed as null
IndexKey(doc, f) == IF f \in DOMAIN doc.v THEN doc.v[f] ELSE NoneV

\* Writing doc would break a unique index of the collection; skip is the
\* position of the document being replaced, 0 for an insert
DuplicateKey(c, coll, doc, skip) ==
    \E j \in DOMAIN coll :
        /\ j # skip
        /\ \E f \in UniqueFields(c) \cup {"_id"} : IndexKey(doc, f) = IndexKey(coll[j], f)

\* pymongo gives a document without _id a new ObjectId before it is sent
AssignId(document, oid) ==
    IF "_id" \in DOMAIN document.v THEN document
    ELSE DictV(DictSet(document.v, "_id", ObjectId(oid)))

\* collection.insert_one(document): `doc` is the caller's dict afterwards,
\* `dup` tells a DuplicateKeyError from any other error
InsertOne(c, coll, document, oid, up) ==
    LET doc == AssignId(document, oid)
        dup == up /\ DuplicateKey(c, coll, doc, 0)
    IN [raised |-> ~up \/ dup,
        dup |-> dup,
        coll |-> IF up /\ ~dup THEN Append(coll, doc) ELSE coll,
        doc |-> doc,
        oid |-> IF "_id" \in DOMAIN document.v THEN oid ELSE oid + 1]

\* ReplaceOne gone wrong: the filter is ignored and the document is always
\* inserted as a new one
ReplaceOneAlwaysInsert(c, coll, key, document, oid, up) ==
    [raised |-> ~up,
     coll |-> IF up THEN Append(coll, AssignId(document, oid)) ELSE coll,
     oid |-> IF up THEN oid + 1 ELSE oid,
     upserted |-> up, modified |-> FALSE]

\* collection.replace_one({key: document[key]}, document, upsert=True): the
\* first document whose key field equals the value is replaced and keeps
\* its _id; without a match the document is inserted. modified tells
\* whether the replacement changed the stored document.
ReplaceOne(c, coll, key, document, oid, up) ==
    LET matches == {j \in DOMAIN coll :
                       key \in DOMAIN coll[j].v /\ coll[j].v[key] = document.v[key]}
        j == CHOOSE x \in matches : \A y \in matches : x <= y
        repl == DictV(DictSet(document.v, "_id", coll[j].v["_id"]))
        new == AssignId(document, oid)
    IN IF ~up THEN [raised |-> TRUE, coll |-> coll, oid |-> oid,
                    upserted |-> FALSE, modified |-> FALSE]
       ELSE IF matches # {}
       THEN IF \/ /\ "_id" \in DOMAIN document.v
                  /\ document.v["_id"] # coll[j].v["_id"]
               \/ DuplicateKey(c, coll, repl, j)
            THEN [raised |-> TRUE, coll |-> coll, oid |-> oid,
                  upserted |-> FALSE, modified |-> FALSE]
            ELSE [raised |-> FALSE, coll |-> [coll EXCEPT ![j] = repl], oid |-> oid,
                  upserted |-> FALSE, modified |-> repl # coll[j]]
       ELSE IF DuplicateKey(c, coll, new, 0)
            THEN [raised |-> TRUE, coll |-> coll, oid |-> oid,
                  upserted |-> FALSE, modified |-> FALSE]
            ELSE [raised |-> FALSE, coll |-> Append(coll, new),
                  oid |-> IF "_id" \in DOMAIN document.v THEN oid ELSE oid + 1,
                  upserted |-> TRUE, modified |-> FALSE]

----------------------------------------------------------------------------
(* MongoDBClient.store_data. The loops thread                              *)
(*   coll  the collection        oid   the ObjectIds generated             *)
(*   docs  the caller's list     inserted, updated, failed  the counters   *)
(*   hist  the collection and the counters as they are after each document *)

Snapshot(st) ==
    [st EXCEPT !.hist = Append(@, [coll |-> st.coll, inserted |-> st.inserted,
                                   updated |-> st.updated, failed |-> st.failed])]

\* CountUpsert gone wrong: every replace_one that matched counts as updated
CountUpsertMatched(st, r) ==
    IF r.upserted THEN [st EXCEPT !.inserted = @ + 1]
    ELSE [st EXCEPT !.updated = @ + 1]

\* lines 164-167: the counters after a replace_one that returned
CountUpsert(st, r) ==
    IF r.upserted THEN [st EXCEPT !.inserted = @ + 1]
    ELSE IF r.modified THEN [st EXCEPT !.updated = @ + 1]
    ELSE st

\* lines 154-174: `for document in data`, from the i-th document on
RECURSIVE UpsertLoop(_, _, _, _, _)
UpsertLoop(c, upsert_key, st, i, up) ==
    IF i > Len(st.docs) THEN st
    ELSE LET document == st.docs[i] IN
         IF upsert_key \in DOMAIN document.v
         THEN LET r == ReplaceOne(c, st.coll, upsert_key, document, st.oid, up)
                  st1 == [st EXCEPT !.coll = r.coll, !.oid = r.oid]
              IN UpsertLoop(c, upsert_key,
                            Snapshot(IF r.raised THEN [st1 EXCEPT !.failed = @ + 1]
                                     ELSE CountUpsert(st1, r)),
                            i + 1, up)
         ELSE LET r == InsertOne(c, st.coll, document, st.oid, up)
                  st1 == [st EXCEPT !.coll = r.coll, !.oid = r.oid,
                                    !.docs[i] = r.doc]
              IN UpsertLoop(c, upsert_key,
                            Snapshot(IF r.raised THEN [st1 EXCEPT !.failed = @ + 1]
                                     ELSE [st1 EXCEPT !.inserted = @ + 1]),
                            i + 1, up)

\* collection.insert_many(data, ordered=False): every document gets its
\* _id, every document is tried, and the call raises if one write failed;
\* `inserted` counts the documents written, `failed` the writes that failed
RECURSIVE InsertMany(_, _, _, _)
InsertMany(c, st, i, up) ==
    IF i > Len(st.docs) THEN st
    ELSE LET r == InsertOne(c, st.coll, st.docs[i], st.oid, up)
             st1 == [st EXCEPT !.coll = r.coll, !.oid = r.oid, !.docs[i] = r.doc]
         IN InsertMany(c,
                       IF r.raised THEN [st1 EXCEPT !.failed = @ + 1]
                       ELSE [st1 EXCEPT !.inserted = @ + 1],
                       i + 1, up)

\* lines 183-192: the one-at-a-time inserts after a failed bulk insert
RECURSIVE InsertEach(_, _, _, _)
InsertEach(c, st, i, up) ==
    IF i > Len(st.docs) THEN st
    ELSE LET r == InsertOne(c, st.coll, st.docs[i], st.oid, up)
             st1 == [st EXCEPT !.coll = r.coll, !.oid = r.oid, !.docs[i] = r.doc]
         IN InsertEach(c,
                       Snapshot(IF ~r.raised THEN [st1 EXCEPT !.inserted = @ + 1]
                                ELSE IF r.dup THEN st1
                                ELSE [st1 EXCEPT !.failed = @ + 1]),
                       i + 1, up)

\* lines 176-192: the branch without an upsert key. inserted_count is set
\* from the result of insert_many only when it returns.
BulkInsert(c, st, up) ==
    LET bulk == InsertMany(c, st, 1, up)
    IN IF bulk.failed = 0 THEN bulk
       ELSE InsertEach(c, [bulk EXCEPT !.inserted = 0, !.failed = 0], 1, up)

\* LogDataOperation gone wrong: the two counts change places
LogDataOperationSwapped(log, c, operation, total, inserted, updated, up) ==
    IF up
    THEN Append(log, [operation |-> operation, collection |-> c,
                      total_records |-> total, inserted_records |-> updated,
                      updated_records |-> inserted, source |-> "mongodb_client"])
    ELSE log

\* _log_data_operation: the audit record (its timestamp is left out); a
\* failing insert is logged and swallowed
LogDataOperation(log, c, operation, total, inserted, updated, up) ==
    IF up
    THEN Append(log, [operation |-> operation, collection |-> c,
                      total_records |-> total, inserted_records |-> inserted,
                      updated_records |-> updated, source |-> "mongodb_client"])
    ELSE log

\* lines 194-208: the audit entry of the call and what it returns, st being
\* the state the loop has left
StoreOutcome(c, log, docs, st, up) ==
    [coll |-> st.coll,
     log |-> LogDataOperation(log, c, "store", Len(docs), st.inserted, st.updated, up),
     oid |-> st.oid,
     docs |-> st.docs,
     hist |-> st.hist,
     summary |-> [inserted |-> st.inserted, updated |-> st.updated,
                  failed |-> st.failed]]

\* lines 141-143: nothing is done for an empty list
NothingStored(coll, log, docs, oid) ==
    [coll |-> coll, log |-> log, oid |-> oid, docs |-> docs, hist |-> <<>>,
     summary |-> [inserted |-> 0, updated |-> 0, failed |-> 0]]

\* The state the loops start from
LoopStart(coll, docs, oid) ==
    [coll |-> coll, oid |-> oid, docs |-> docs, hist |-> <<>>,
     inserted |-> 0, updated |-> 0, failed |-> 0]

\* StoreData gone wrong: the upsert key is ignored, every call is a bulk
\* insert
StoreDataNoUpsert(c, coll, log, docs, upsert_key, oid, up) ==
    IF docs = <<>> THEN NothingStored(coll, log, docs, oid)
    ELSE StoreOutcome(c, log, docs, BulkInsert(c, LoopStart(coll, docs, oid), up), up)

\* store_data(collection_name, data, upsert_key); upsert_key = "" is None
StoreData(c, coll, log, docs, upsert_key, oid, up) ==
    IF docs = <<>> THEN NothingStored(coll, log, docs, oid)
    ELSE StoreOutcome(c, log, docs,
                      IF upsert_key # ""
                      THEN UpsertLoop(c, upsert_key, LoopStart(coll, docs, oid), 1, up)
                      ELSE BulkInsert(c, LoopStart(coll, docs, oid), up),
                      up)

----------------------------------------------------------------------------
(* State machine of the store: a caller that stores batches of documents,  *)
(* and a connection that may be lost.                                       *)

\* The audit_logs collection holds at most this many entries: the store is
\* not called again once it is full
MaxAudit == 2

\* The longest list passed to store_data
MaxStoreBatch == 2

\* No more ObjectIds than this are generated
MaxOids == 4

\* store_data is not called with more documents than are left of this many
MaxStored == 2

Anon(id) == [t |-> "anon", alg |-> "sha256", of |-> id]

\* An instant of the clock: a day of January 2026, at 03:04:05 and us
\* microseconds
Instant(day, us) == [day |-> day, us |-> us]

DayDigits == <<"1", "2", "3", "4", "5", "6", "7", "8", "9">>

\* datetime.isoformat(): the fraction is left out when microsecond is 0
IsoFormat(t) ==
    <<"2", "0", "2", "6", "-", "0", "1", "-", "0", DayDigits[t.day], "T",
      "0", "3", ":", "0", "4", ":", "0", "5">>
    \o (IF t.us = 0 THEN <<>> ELSE <<".", "5", "0", "0", "0", "0", "0">>)

\* utcnow() - timedelta(days=days)
MinusDays(t, days) == Instant(t.day - days, t.us)

\* ord() of the characters of an isoformat string
Ord ==
    [c \in {"-", ".", ":", "T"} \cup Digits |->
        CASE c = "-" -> 45 [] c = "." -> 46 [] c = ":" -> 58 [] c = "T" -> 84
          [] OTHER -> 48 + (CHOOSE n \in 0..9 : ToString(n) = c)]

\* a < b for two strings, as Python and the $lt of MongoDB order them
RECURSIVE StrLess(_, _)
StrLess(a, b) ==
    IF b = <<>> THEN FALSE
    ELSE IF a = <<>> THEN TRUE
    ELSE IF Head(a) # Head(b) THEN Ord[Head(a)] < Ord[Head(b)]
    ELSE StrLess(Tail(a), Tail(b))

\* The two instants at which documents were collected
CollectedAt == {Instant(1, 0), Instant(2, 500000)}

\* Documents as the pipeline stores them: a pseudonym (the upsert key) and
\* the time of collection, or a raw identifier in one of the two fields
\* get_student_data looks at. Two documents without student_id collide
\* under the unique index of canvas_students, where a missing field counts
\* as null.
StoreDocs ==
    {MkDict([anonymous_id |-> k, collected_at |-> StrV(IsoFormat(Instant(1, 0)))]) :
        k \in {Absent, Anon(Id1001), Anon(Id1002)}}
    \cup {MkDict([anonymous_id |-> Anon(Id1001),
                  collected_at |-> StrV(IsoFormat(Instant(2, 500000)))]),
          MkDict([student_id |-> StrV(Id1001),
                  collected_at |-> StrV(IsoFormat(Instant(2, 500000)))]),
          MkDict([user_id |-> StrV(Id1001), anonymous_id |-> Anon(Id1002),
                  collected_at |-> StrV(IsoFormat(Instant(1, 0)))])}

StoreBatches == UNION {[1..n -> StoreDocs] : n \in 0..MaxStoreBatch}

\* The upsert_key arguments: None (written "") and "anonymous_id"
UpsertKeys == {"", "anonymous_id"}

\* What a store_data call that returned r leaves: the collection, the audit
\* log, the caller's dicts, the summary; ghost is what is recorded of the
\* call, to which the history of the loop is added
StoreEffect(c, r, ghost) ==
    /\ db' = [db EXCEPT ![c] = r.coll]
    /\ audit_logs' = r.log
    /\ next_oid' = r.oid
    /\ records' = r.docs
    /\ result' = Returned(r.summary)
    /\ data' = [ghost EXCEPT !.hist = r.hist]

StoreCall ==
    /\ pc = "idle"
    /\ Len(audit_logs) < MaxAudit
    /\ \E c \in Collections, docs \in StoreBatches, key \in UpsertKeys :
          /\ next_oid + Len(docs) <= MaxStored
          /\ given' = docs
          /\ StoreEffect(c,
                         StoreData(c, db[c], audit_logs, docs, key, next_oid,
                                   connected),
                         [collection |-> c, upsert_key |-> key, before |-> db[c],
                          log |-> audit_logs, hist |-> <<>>])
    /\ pc' = "returned"
    /\ op' = "store"
    /\ UNCHANGED <<anonymization_enabled, ferpa_enabled, issued, connected>>

\* The caller stores the same record sequence once more, in the same
\* collection and with the same upsert key: either records equal to the
\* first ones (a rerun that collected them afresh) or the very list of the
\* first call, with whatever the first call added to its dicts
StoreAgain ==
    /\ pc = "returned"
    /\ op = "store"
    /\ \E docs \in {records, given} :
          /\ given' = docs
          /\ StoreEffect(data.collection,
                         StoreData(data.collection, db[data.collection], audit_logs,
                                   docs, data.upsert_key, next_oid, connected),
                         [collection |-> data.collection,
                          upsert_key |-> data.upsert_key,
                          before |-> db[data.collection], log |-> audit_logs,
                          hist |-> <<>>,
                          first |-> [docs |-> given, summary |-> result.value]])
    /\ pc' = "returned"
    /\ op' = "store_again"
    /\ UNCHANGED <<anonymization_enabled, ferpa_enabled, issued, connected>>

\* store_data when the connection is lost after k documents were written:
\* every later write raises, the one to audit_logs included. In upsert mode
\* the loop goes on over the remaining documents; without an upsert key the
\* k documents are what insert_many had written when it raised, and the
\* one-at-a-time inserts follow
StoreDataLosing(c, coll, log, docs, upsert_key, oid, k) ==
    LET head == LoopStart(coll, SubSeq(docs, 1, k), oid)
        rest == SubSeq(docs, k + 1, Len(docs))
    IN StoreOutcome(c, log, docs,
                    IF upsert_key # ""
                    THEN UpsertLoop(c, upsert_key,
                                    [UpsertLoop(c, upsert_key, head, 1, TRUE)
                                        EXCEPT !.docs = @ \o rest],
                                    k + 1, FALSE)
                    ELSE InsertEach(c,
                                    [InsertMany(c, head, 1, TRUE)
                                        EXCEPT !.docs = @ \o rest,
                                               !.inserted = 0, !.failed = 0],
                                    1, FALSE),
                    FALSE)

\* A store_data call during which the connection is lost
StoreLosing ==
    /\ pc = "idle"
    /\ connected
    /\ Len(audit_logs) < MaxAudit
    /\ \E c \in Collections, docs \in StoreBatches \ {<<>>}, key \in UpsertKeys :
          \E k \in 0..(Len(docs) - 1) :
             /\ next_oid + Len(docs) <= MaxStored
             /\ given' = docs
             /\ StoreEffect(c,
                            StoreDataLosing(c, db[c], audit_logs, docs, key, next_oid, k),
                            [collection |-> c, upsert_key |-> key, before |-> db[c],
                             log |-> audit_logs, hist |-> <<>>, written |-> k])
    /\ connected' = FALSE
    /\ pc' = "returned"
    /\ op' = "store_losing"
    /\ UNCHANGED <<anonymization_enabled, ferpa_enabled, issued>>

\* The connection to the server is lost: every later operation raises
LoseConnection ==
    /\ pc = "idle"
    /\ connected
    /\ connected' = FALSE
    /\ UNCHANGED <<anonymization_enabled, ferpa_enabled, pc, op, records, given,
                   result, issued, data, db, audit_logs, next_oid>>

----------------------------------------------------------------------------
(* The ingestion of student records: the task anonymizes what it collected *)
(* and stores the outcome in canvas_students.                               *)

\* The longest sequence of student records a task collects
MaxIngest == 3

\* Raw records as collected: an identifier, and for one of them an email
\* address
IngestRecords ==
    {DictV([student_id |-> IntV(Id1001)]),
     DictV([student_id |-> IntV(Id1002), email |-> StrV(EmailJo)])}

IngestBatches == UNION {[1..n -> IngestRecords] : n \in 0..MaxIngest}

\* The clock does not run backwards while a batch is anonymized
Clocks(n) ==
    {clock \in [1..n -> Times] :
        \A i \in 1..n, j \in 1..n : i < j => ~StrLess(clock[j], clock[i])}

\* The task has anonymized what it collected; a failure ends the task
Collected(name, batch, call) ==
    /\ next_oid + Len(batch) <= MaxOids
    /\ pc' = IF call.raised THEN "returned" ELSE "anonymized"
    /\ op' = name
    /\ given' = batch
    /\ records' = call.after
    /\ result' = IF call.raised THEN Raised ELSE Returned(call.value)
    /\ issued' = issued \cup IssuedBy(batch, call)
    /\ UNCHANGED <<anonymization_enabled, ferpa_enabled, data, db, audit_logs,
                   connected, next_oid>>

\* collect_canvas_data, first half: anonymize_student_data(students)
CollectStudents ==
    /\ pc = "idle"
    /\ Len(audit_logs) < MaxAudit
    /\ \E batch \in IngestBatches :
          \E clock \in Clocks(Len(batch)) :
             Collected("canvas_students", batch,
                       AnonymizeStudents(anonymization_enabled, batch, clock))

\* collect_attendance_data, first half:
\* anonymize_attendance_data(attendance_records)
CollectAttendance ==
    /\ pc = "idle"
    /\ Len(audit_logs) < MaxAudit
    /\ \E batch \in IngestBatches :
          \E clock \in Clocks(Len(batch)) :
             Collected("attendance_records", batch,
                       AnonymizeAttendance(anonymization_enabled, batch, clock))

\* The second half of both tasks: store_data(collection, anonymized), here
\* also with an upsert key
StoreCollected ==
    /\ pc = "anonymized"
    /\ \E key \in UpsertKeys :
          StoreEffect(op,
                      StoreData(op, db[op], audit_logs, result.value, key, next_oid,
                                connected),
                      [collection |-> op, upsert_key |-> key, before |-> db[op],
                       log |-> audit_logs, hist |-> <<>>, stored |-> result.value])
    /\ pc' = "returned"
    /\ op' = "ingest"
    /\ UNCHANGED <<anonymization_enabled, ferpa_enabled, given, issued, connected>>

NextIngest ==
    \/ CollectStudents
    \/ CollectAttendance
    \/ StoreCollected
    \/ LoseConnection
    \/ Discard

SpecIngest == Init /\ [][NextIngest]_vars

----------------------------------------------------------------------------
(* MongoDBClient.get_collection_data *)

\* str(ObjectId): the 24 hexadecimal digits of the id
StrOfObjectId(oid) == [t |-> "oidstr", v |-> oid.v]

\* Find gone wrong: the filter is ignored
FindAll(coll, filter_query) == DOMAIN coll

\* collection.find(filter_query): the positions of the documents that have
\* every field of the filter with the value given
Find(coll, filter_query) ==
    {j \in DOMAIN coll :
        \A f \in DOMAIN filter_query :
            f \in DOMAIN coll[j].v /\ coll[j].v[f] = filter_query[f]}

\* The sort key of a document: a missing field sorts as null, before every
\* string
SortsBefore(a, b, sort_field) ==
    IF sort_field \notin DOMAIN a.v THEN sort_field \in DOMAIN b.v
    ELSE sort_field \in DOMAIN b.v /\ StrLess(a.v[sort_field].v, b.v[sort_field].v)

\* The orders in which the cursor may give the documents at the positions
\* found: the order of insertion without a sort; with a sort, any order that
\* agrees with the sort field (the order of ties is not defined).
\* sort_direction is 1 (ASCENDING) or -1 (DESCENDING).
CursorOrders(coll, found, sort_field, sort_direction) ==
    LET n == Cardinality(found)
        orders == {o \in [1..n -> found] : \A i, j \in 1..n : i # j => o[i] # o[j]}
    IN IF sort_field = ""
       THEN {o \in orders : \A i, j \in 1..n : i < j => o[i] < o[j]}
       ELSE {o \in orders :
                \A i, j \in 1..n :
                    i < j => IF sort_direction = 1
                             THEN ~SortsBefore(coll[o[j]], coll[o[i]], sort_field)
                             ELSE ~SortsBefore(coll[o[i]], coll[o[j]], sort_field)}

\* lines 243-247: the documents of the cursor, each with its _id as a str
Documents(coll, order, limit) ==
    LET n == IF limit # 0 /\ limit < Len(order) THEN limit ELSE Len(order)
    IN [i \in 1..n |->
           LET doc == coll[order[i]]
           IN IF "_id" \in DOMAIN doc.v
              THEN DictV(DictSet(doc.v, "_id", StrOfObjectId(doc.v["_id"])))
              ELSE doc]

\* get_collection_data(collection_name, filter_query, limit, sort_field,
\* sort_direction): the outcomes the call may have. filter_query None is
\* the empty filter, limit None or 0 no limit, sort_field None is "".
GetCollectionData(coll, filter_query, limit, sort_field, sort_direction, up) ==
    IF ~up THEN {Raised}
    ELSE {Returned(Documents(coll, order, limit)) :
             order \in CursorOrders(coll, Find(coll, filter_query), sort_field,
                                    sort_direction)}

\* The filters a caller passes: none, a pseudonym, a raw identifier
Filters ==
    {<<>>,
     [anonymous_id |-> Anon(Id1001)],
     [student_id |-> StrV(Id1001)]}

\* sort_field and sort_direction as a caller passes them
Sorts == {<<"", -1>>, <<"collected_at", -1>>, <<"collected_at", 1>>}

GetCall ==
    /\ pc = "idle"
    /\ \E c \in Collections, filter_query \in Filters, limit \in {0, 1},
          sort \in Sorts :
          \E r \in GetCollectionData(db[c], filter_query, limit, sort[1], sort[2],
                                     connected) :
             /\ result' = r
             /\ data' = [collection |-> c, filter_query |-> filter_query,
                         limit |-> limit, sort_field |-> sort[1],
                         sort_direction |-> sort[2], before |-> db,
                         log |-> audit_logs]
    /\ pc' = "returned"
    /\ op' = "get"
    /\ UNCHANGED <<anonymization_enabled, ferpa_enabled, records, given, issued,
                   db, audit_logs, connected, next_oid>>

----------------------------------------------------------------------------
(* MongoDBClient.get_student_data *)

\* lines 271-275: the collections probed when include_collections is None,
\* those of them the model has
DefaultCollections == <<"canvas_students", "attendance_records">>

\* line 281: id_fields
id_fields == <<"student_id", "user_id">>

\* lines 283-289: `for id_field in id_fields`, from the k-th field on: the
\* outcomes of the probes of one collection. `value` is the list stored
\* under the collection name, empty when no field matched.
RECURSIVE ProbeFields(_, _, _, _)
ProbeFields(coll, student_id, k, up) ==
    IF k > Len(id_fields) THEN {Returned(<<>>)}
    ELSE UNION {IF r.raised THEN {Raised}
                ELSE IF r.value # <<>> THEN {r}
                ELSE ProbeFields(coll, student_id, k + 1, up) :
                   r \in GetCollectionData(coll, [f \in {id_fields[k]} |-> student_id],
                                          0, "", -1, up)}

\* _log_audit_event(action, user_id, details); a failing insert is logged
\* and swallowed
LogAuditEvent(log, action, user_id, details, up) ==
    IF up
    THEN Append(log, [action |-> action, user_id |-> user_id,
                      details |-> details, source |-> "mongodb_client"])
    ELSE log

\* LogStudentAccess gone wrong: nothing is logged when no collection matched
LogStudentAccessIfFound(log, student_id, student_data, up) ==
    IF DOMAIN student_data = {} THEN log
    ELSE LogAuditEvent(log, "student_data_access", student_id,
                       "Accessed data from " \o ToString(Cardinality(DOMAIN student_data))
                           \o " collections", up)

\* lines 295-297: the audit entry of the access
LogStudentAccess(log, student_id, student_data, up) ==
    LogAuditEvent(log, "student_data_access", student_id,
                  "Accessed data from " \o ToString(Cardinality(DOMAIN student_data))
                      \o " collections", up)

\* lines 279-293: the loop over the collections, from the k-th on. A probe
\* that raises is logged and its collection left out. failing is the set
\* of collections whose probes raise.
RECURSIVE ProbeCollections(_, _, _, _, _, _)
ProbeCollections(database, include_collections, student_id, failing, student_data, k) ==
    IF k > Len(include_collections) THEN {student_data}
    ELSE LET c == include_collections[k]
         IN UNION {ProbeCollections(database, include_collections, student_id, failing,
                                    IF r.raised \/ r.value = <<>> THEN student_data
                                    ELSE [x \in DOMAIN student_data \cup {c} |->
                                             IF x = c THEN r.value ELSE student_data[x]],
                                    k + 1) :
                      r \in ProbeFields(database[c], student_id, 1, c \notin failing)}

\* get_student_data(student_id, include_collections): the outcomes the call
\* may have, each with the audit log it leaves. include_collections None
\* is NoneV.
GetStudentData(database, log, student_id, include_collections, failing, audit_up) ==
    LET included == IF include_collections = NoneV THEN DefaultCollections
                    ELSE include_collections
    IN {[value |-> student_data,
         log |-> LogStudentAccess(log, student_id, student_data, audit_up)] :
           student_data \in ProbeCollections(database, included, student_id, failing,
                                             <<>>, 1)}

\* The identifiers a caller asks for: a raw identifier, and a pseudonym as
\* the dashboard passes it
StudentIds == {StrV(Id1001), Anon(Id1001)}

\* The include_collections arguments
Includes == {NoneV, <<"data_lineage", "canvas_students">>}

\* While the connection is up a single operation may still time out; once
\* it is lost every operation raises
Failures(up) ==
    IF up THEN {[failing |-> f, audit_up |-> a] : f \in SUBSET Collections, a \in BOOLEAN}
    ELSE {[failing |-> Collections, audit_up |-> FALSE]}

GetStudentCall ==
    /\ pc = "idle"
    /\ Len(audit_logs) <= MaxAudit
    /\ \E student_id \in StudentIds, include_collections \in Includes,
          fail \in Failures(connected) :
          \E r \in GetStudentData(db, audit_logs, student_id, include_collections,
                                  fail.failing, fail.audit_up) :
             /\ result' = Returned(r.value)
             /\ audit_logs' = r.log
             /\ data' = [student_id |-> student_id,
                         include_collections |-> include_collections,
                         failing |-> fail.failing, audit_up |-> fail.audit_up,
                         before |-> db, log |-> audit_logs]
    /\ pc' = "returned"
    /\ op' = "get_student"
    /\ UNCHANGED <<anonymization_enabled, ferpa_enabled, records, given, issued,
                   db, connected, next_oid>>

----------------------------------------------------------------------------
(* MongoDBClient.cleanup_old_data *)

\* CollectionsToClean gone wrong: data_lineage is cleaned too
CollectionsToCleanAll == <<"canvas_students", "attendance_records", "data_lineage">>

\* lines 389-394: collections_to_clean, those of them the model has
CollectionsToClean == <<"canvas_students", "attendance_records">>

\* DeleteMany gone wrong: `$lte` for `$lt`
DeleteManyOrEqual(coll, cutoff) ==
    SelectSeq(coll, LAMBDA doc :
        ~(/\ "collected_at" \in DOMAIN doc.v
          /\ IsStr(doc.v["collected_at"])
          /\ ~StrLess(cutoff, doc.v["collected_at"].v)))

\* collection.delete_many({'collected_at': {'$lt': cutoff}}): what is left
\* of the collection. $lt with a string selects string values only.
DeleteMany(coll, cutoff) ==
    SelectSeq(coll, LAMBDA doc :
        ~(/\ "collected_at" \in DOMAIN doc.v
          /\ IsStr(doc.v["collected_at"])
          /\ StrLess(doc.v["collected_at"].v, cutoff)))

\* lines 398-417: the loop over the collections, from the k-th on; st holds
\* the database, the audit log and total_deleted
RECURSIVE CleanupLoop(_, _, _, _)
CleanupLoop(st, cutoff, k, up) ==
    IF k > Len(CollectionsToClean) THEN st
    ELSE LET c == CollectionsToClean[k]
             left == DeleteMany(st.database[c], cutoff)
             deleted_count == Len(st.database[c]) - Len(left)
         IN IF ~up THEN CleanupLoop(st, cutoff, k + 1, up)
            ELSE CleanupLoop(
                    [database |-> [st.database EXCEPT ![c] = left],
                     log |-> IF deleted_count > 0
                             THEN LogDataOperation(st.log, c, "cleanup", deleted_count,
                                                   0, 0, up)
                             ELSE st.log,
                     total_deleted |-> st.total_deleted + deleted_count],
                    cutoff, k + 1, up)

\* cleanup_old_data(days_to_keep) called at the instant now
CleanupOldData(database, log, now, days_to_keep, up) ==
    CleanupLoop([database |-> database, log |-> log, total_deleted |-> 0],
                IsoFormat(MinusDays(now, days_to_keep)), 1, up)

\* The instants at which cleanup runs, after every collection time
CleanupTimes == {Instant(3, 0), Instant(3, 500000)}

\* The days_to_keep arguments
RetentionDays == {0, 1, 2}

CleanupCall ==
    /\ pc = "idle"
    /\ Len(audit_logs) <= MaxAudit
    /\ \E now \in CleanupTimes, days_to_keep \in RetentionDays :
          LET r == CleanupOldData(db, audit_logs, now, days_to_keep, connected)
          IN /\ db' = r.database
             /\ audit_logs' = r.log
             /\ result' = Returned(r.total_deleted)
             /\ data' = [now |-> now, days_to_keep |-> days_to_keep,
                         before |-> db, log |-> audit_logs]
    /\ pc' = "returned"
    /\ op' = "cleanup"
    /\ UNCHANGED <<anonymization_enabled, ferpa_enabled, records, given, issued,
                   connected, next_oid>>

NextStore == StoreCall \/ StoreAgain \/ StoreLosing \/ LoseConnection \/ Discard

SpecStore == Init /\ [][NextStore]_vars

----------------------------------------------------------------------------
(* Claims about the counts of an upsert *)

\* a store_data call with an upsert key has returned
Upserted == pc = "returned" /\ op = "store" /\ data.upsert_key # ""

\* The collection and the counters just before the i-th record is written
BeforeRecord(i) ==
    IF i = 1 THEN [coll |-> data.before, inserted |-> 0, updated |-> 0, failed |-> 0]
    ELSE data.hist[i - 1]

\* The record carries the upsert key
Keyed(i) == data.upsert_key \in DOMAIN given[i].v

\* The positions of the documents that had the record's key value just
\* before the i-th record was written
Existing(i) ==
    LET coll == BeforeRecord(i).coll
    IN {j \in DOMAIN coll : /\ data.upsert_key \in DOMAIN coll[j].v
                            /\ coll[j].v[data.upsert_key] = given[i].v[data.upsert_key]}

\* The first of them already has every field of the record, and no other
AlreadyStored(i) ==
    LET coll == BeforeRecord(i).coll
        j == CHOOSE x \in Existing(i) : \A y \in Existing(i) : x <= y
    IN Existing(i) # {} /\ DictDel(coll[j].v, "_id") = DictDel(given[i].v, "_id")

\* What the i-th record added to each counter
CountedInserted(i) == data.hist[i].inserted - BeforeRecord(i).inserted
CountedUpdated(i) == data.hist[i].updated - BeforeRecord(i).updated
CountedFailed(i) == data.hist[i].failed - BeforeRecord(i).failed
Counted(i) == CountedInserted(i) + CountedUpdated(i) + CountedFailed(i)

\* The records that replaced a document by an equal one
Unchanged == {i \in DOMAIN given : Keyed(i) /\ AlreadyStored(i) /\ CountedFailed(i) = 0}

\* C10 as stated: in upsert mode every record that carries the key is
\* counted exactly once, as inserted when no document had its key value
\* before it was written, as updated when one had, as failed when its write
\* raised, so that inserted + updated + failed is the number of records.
C10_Original ==
    Upserted =>
        /\ \A i \in DOMAIN given :
              Keyed(i) =>
                 /\ Counted(i) = 1
                 /\ CountedFailed(i) = 0 =>
                       /\ CountedInserted(i) = 1 <=> Existing(i) = {}
                       /\ CountedUpdated(i) = 1 <=> Existing(i) # {}
        /\ result.value.inserted + result.value.updated + result.value.failed
              = Len(given)

\* C10 amended: in upsert mode every record is counted at most once. A
\* record whose write raised is counted as failed and leaves the collection
\* as it was. Otherwise it is counted as inserted exactly when no document
\* had its key value before it was written (or it carries no key), as
\* updated exactly when one had and the replacement changed it, and not at
\* all exactly when the document found already equalled the record. So
\* inserted + updated + failed is the number of records less the number of
\* replacements that changed nothing.
C10_UpsertCounts ==
    Upserted =>
        /\ \A i \in DOMAIN given :
              /\ CountedInserted(i) \in {0, 1}
              /\ CountedUpdated(i) \in {0, 1}
              /\ CountedFailed(i) \in {0, 1}
              /\ Counted(i) <= 1
              /\ CountedFailed(i) = 1 => data.hist[i].coll = BeforeRecord(i).coll
              /\ CountedFailed(i) = 0 /\ ~Keyed(i) => CountedInserted(i) = 1
              /\ CountedFailed(i) = 0 /\ Keyed(i) =>
                    /\ CountedInserted(i) = 1 <=> Existing(i) = {}
                    /\ CountedUpdated(i) = 1 <=> Existing(i) # {} /\ ~AlreadyStored(i)
                    /\ Counted(i) = 0 <=> AlreadyStored(i)
        /\ result.value.inserted + result.value.updated + result.value.failed
              = Len(given) - Cardinality(Unchanged)
        /\ Len(db[data.collection]) = Len(data.before) + result.value.inserted

\* C10 witness: an upsert of two equal records into a collection without
\* their key value: the first is inserted, the second counted nowhere
C10_Witness ==
    /\ Upserted
    /\ connected
    /\ Len(given) = 2
    /\ given[1] = given[2]
    /\ Keyed(1)
    /\ Existing(1) = {}
    /\ Unchanged = {2}
    /\ result.value = [inserted |-> 1, updated |-> 0, failed |-> 0]

----------------------------------------------------------------------------
(* Claims about storing a record sequence twice *)

\* the second of two store calls with the same arguments has returned
StoredAgain == pc = "returned" /\ op = "store_again"

----------------------------------------------------------------------------
(* Claims about ingested records *)

\* the task has stored what it anonymized
Ingested == pc = "returned" /\ op = "ingest"

\* No two documents of the collection have the same value of the key
NoSharedKey(coll, key) ==
    \A i \in DOMAIN coll, j \in DOMAIN coll :
        (i # j /\ key \in DOMAIN coll[i].v /\ key \in DOMAIN coll[j].v)
            => coll[i].v[key] # coll[j].v[key]

\* Anonymized student records of the students 1001, 1002, 1001 were stored
\* under the upsert key anonymous_id in the empty canvas_students
ThreeStudents ==
    /\ Ingested
    /\ anonymization_enabled
    /\ connected
    /\ data.collection = "canvas_students"
    /\ data.upsert_key = "anonymous_id"
    /\ data.before = <<>>
    /\ Len(given) = 3
    /\ given[1].v["student_id"] = IntV(Id1001)
    /\ given[2].v["student_id"] = IntV(Id1002)
    /\ given[3].v["student_id"] = IntV(Id1001)

\* C12 as stated, its example: storing the anonymized records of 1001,
\* 1002, 1001 under anonymous_id in an empty collection leaves exactly 2
\* documents and returns inserted=2, updated=1.
C12_Original ==
    ThreeStudents =>
        /\ Len(db["canvas_students"]) = 2
        /\ result.value.inserted = 2
        /\ result.value.updated = 1

\* C12 amended: the example leaves exactly 2 documents and returns
\* inserted=2, failed=0, and updated=1 when the third anonymized record
\* differs from the first, updated=0 when the two are equal. A store call
\* with an upsert key on a collection in which no two documents share a
\* value of the key leaves it so; hence after any sequence of such calls on
\* a collection that started empty no two documents share a key value.
C12_KeyCollapses ==
    Ingested =>
        /\ ThreeStudents =>
              /\ Len(db["canvas_students"]) = 2
              /\ result.value.inserted = 2
              /\ result.value.failed = 0
              /\ result.value.updated =
                    (IF data.stored[3] = data.stored[1] THEN 0 ELSE 1)
        /\ (data.upsert_key # "" /\ NoSharedKey(data.before, data.upsert_key))
              => NoSharedKey(db[data.collection], data.upsert_key)

\* C12 witness: the example, with a third anonymized record that differs
\* from the first: 2 documents, inserted=2, updated=1
C12_Witness ==
    /\ ThreeStudents
    /\ data.stored[3] # data.stored[1]
    /\ Len(db["canvas_students"]) = 2
    /\ result.value = [inserted |-> 2, updated |-> 1, failed |-> 0]

----------------------------------------------------------------------------
(* Claims about the audit entry of a store call *)

\* a store_data call has returned
Stored == pc = "returned" /\ op = "store"

\* The call appended exactly one entry to audit_logs, with the collection
\* and the inserted and updated counts of the call
OneStoreEntry ==
    /\ Len(audit_logs) = Len(data.log) + 1
    /\ SubSeq(audit_logs, 1, Len(data.log)) = data.log
    /\ LET entry == audit_logs[Len(audit_logs)]
       IN /\ entry.operation = "store"
          /\ entry.collection = data.collection
          /\ entry.total_records = Len(given)
          /\ entry.inserted_records = result.value.inserted
          /\ entry.updated_records = result.value.updated

\* C13 as stated: every call to store, with or without an upsert key and
\* for any record list, appends exactly one audit entry naming the
\* collection and the inserted/updated counts of the call.
C13_Original == Stored => OneStoreEntry

\* C13 amended: a call to store with a non-empty record list, with or
\* without an upsert key, appends exactly one audit entry naming the
\* collection and its counts when the write to audit_logs succeeds; a call
\* with an empty list, or one whose audit write fails, returns its counts
\* and leaves audit_logs as it was.
C13_AuditEntry ==
    Stored =>
        /\ ~result.raised
        /\ IF given # <<>> /\ connected THEN OneStoreEntry
           ELSE audit_logs = data.log

\* C13 witness: an upsert that inserted one record and updated it with the
\* next has its entry, with both counts
C13_Witness ==
    /\ Stored
    /\ data.upsert_key # ""
    /\ result.value = [inserted |-> 1, updated |-> 1, failed |-> 0]
    /\ OneStoreEntry
    /\ audit_logs[Len(audit_logs)].inserted_records = 1
    /\ audit_logs[Len(audit_logs)].updated_records = 1

----------------------------------------------------------------------------
(* Claims about the bulk insert *)

\* a store_data call without an upsert key has returned after its bulk
\* insert failed and the records were inserted one at a time
FellBack == Stored /\ data.upsert_key = "" /\ data.hist # <<>>

\* The record broke a unique index of the collection as it was when the
\* call began, extended by the records before it that did not
RECURSIVE Accepted(_, _)
Accepted(coll, i) ==
    IF i = 0 THEN coll
    ELSE LET sofar == Accepted(coll, i - 1)
         IN IF DuplicateKey(data.collection, sofar, given[i], 0) THEN sofar
            ELSE Append(sofar, AssignId(given[i], 0 - i))

BreaksUnique(i) ==
    DuplicateKey(data.collection, Accepted(data.before, i - 1), given[i], 0)

\* C14 as stated: when the bulk insert fails the call returns normally; a
\* record that violates a uniqueness constraint is counted as neither
\* inserted nor failed, a record whose insert raises another error is
\* counted as failed, and every other record is inserted and counted as
\* inserted.
C14_Original ==
    FellBack =>
        /\ ~result.raised
        /\ result.value.updated = 0
        /\ result.value.failed = (IF connected THEN 0 ELSE Len(given))
        /\ connected =>
              /\ result.value.inserted =
                    Cardinality({i \in DOMAIN given : ~BreaksUnique(i)})
              /\ Len(db[data.collection]) = Len(data.before) + result.value.inserted

----------------------------------------------------------------------------
(* Claims about the read operations *)

\* a get_collection_data call has ended
Got == pc = "returned" /\ op = "get"

\* The documents of the collection read that match the filter of the call
Matching ==
    {j \in DOMAIN db[data.collection] :
        \A f \in DOMAIN data.filter_query :
            /\ f \in DOMAIN db[data.collection][j].v
            /\ db[data.collection][j].v[f] = data.filter_query[f]}

\* C15: get_collection_data changes no document of any collection and
\* appends nothing to audit_logs; while the store can be reached it returns
\* only documents that match the filter, and the empty sequence, not an
\* error, when none matches.
C15_GetReadOnly ==
    Got =>
        /\ db = data.before
        /\ audit_logs = data.log
        /\ connected =>
              /\ ~result.raised
              /\ \A i \in DOMAIN result.value :
                    \E j \in Matching :
                        DictDel(result.value[i].v, "_id") = DictDel(db[data.collection][j].v, "_id")
              /\ Matching = {} => result.value = <<>>

\* C15 witness: a filter that no document of a non-empty collection matches
\* gave the empty sequence
C15_Witness ==
    /\ Got
    /\ connected
    /\ db[data.collection] # <<>>
    /\ data.filter_query # <<>>
    /\ Matching = {}
    /\ result = Returned(<<>>)
    /\ audit_logs # <<>>

\* a get_student_data call has returned
GotStudent == pc = "returned" /\ op = "get_student"

\* The call appended exactly one entry to audit_logs, recording the
\* identifier asked for
OneAccessEntry ==
    /\ Len(audit_logs) = Len(data.log) + 1
    /\ SubSeq(audit_logs, 1, Len(data.log)) = data.log
    /\ LET entry == audit_logs[Len(audit_logs)]
       IN /\ entry.action = "student_data_access"
          /\ entry.user_id = data.student_id
          /\ entry.details = "Accessed data from "
                 \o ToString(Cardinality(DOMAIN result.value)) \o " collections"

\* The collections the call probes
Probed ==
    LET included == IF data.include_collections = NoneV THEN DefaultCollections
                    ELSE data.include_collections
    IN {included[k] : k \in DOMAIN included}

\* The documents of collection c whose field f is the identifier asked for,
\* as get_collection_data gives them
MatchOn(c, f) ==
    LET sel == SelectSeq(db[c], LAMBDA doc :
                   f \in DOMAIN doc.v /\ doc.v[f] = data.student_id)
    IN [i \in DOMAIN sel |->
           DictV(DictSet(sel[i].v, "_id", StrOfObjectId(sel[i].v["_id"])))]

\* The result of the first of student_id, user_id that matches in c
FirstMatch(c) ==
    IF MatchOn(c, "student_id") # <<>> THEN MatchOn(c, "student_id")
    ELSE MatchOn(c, "user_id")

\* The returned mapping has an entry exactly for the probed collections
\* whose probes did not fail and found something, holding the first match
MappingOfMatches ==
    /\ DOMAIN result.value = {c \in Probed \ data.failing : FirstMatch(c) # <<>>}
    /\ \A c \in DOMAIN result.value : result.value[c] = FirstMatch(c)

\* C16 as stated: every get_student_data call that returns appends exactly
\* one audit entry recording the identifier, also when no collection
\* matched or a probe failed, and the mapping has an entry only for
\* collections with a match, holding the result of the first field name
\* that matched.
C16_Original ==
    GotStudent =>
        /\ OneAccessEntry
        /\ MappingOfMatches

\* C16 amended: get_student_data always returns and changes no collection;
\* it appends exactly one audit entry recording the identifier, also when
\* no collection matched or a probe failed, when the write to audit_logs
\* succeeds, and leaves audit_logs as it was when that write fails; the
\* mapping has an entry exactly for the probed collections whose probes did
\* not fail and matched, holding the result of the first of student_id,
\* user_id that matched.
C16_StudentAccess ==
    GotStudent =>
        /\ ~result.raised
        /\ db = data.before
        /\ IF data.audit_up THEN OneAccessEntry ELSE audit_logs = data.log
        /\ MappingOfMatches

\* C16 witness: the probe of one collection failed, another collection
\* matched on user_id only, and the access was logged
C16_Witness ==
    /\ GotStudent
    /\ data.audit_up
    /\ Probed \cap data.failing # {}
    /\ \E c \in DOMAIN result.value :
          /\ MatchOn(c, "student_id") = <<>>
          /\ result.value[c] = MatchOn(c, "user_id")
    /\ OneAccessEntry

----------------------------------------------------------------------------
(* Claims about the retention cleanup *)

\* a cleanup_old_data call has returned
Cleaned == pc = "returned" /\ op = "cleanup"

\* The instant an isoformat string stands for
ParseIso(str) ==
    CHOOSE t \in {Instant(d, us) : d \in 1..9, us \in {0, 500000}} : IsoFormat(t) = str

\* Instant a is before instant b
Earlier(a, b) == a.day < b.day \/ (a.day = b.day /\ a.us < b.us)

\* The document was collected before now minus days_to_keep
Expired(doc) ==
    /\ "collected_at" \in DOMAIN doc.v
    /\ Earlier(ParseIso(doc.v["collected_at"].v),
               Instant(data.now.day - data.days_to_keep, data.now.us))

\* What the cleanup has to leave of collection c
Kept(c) == SelectSeq(data.before[c], LAMBDA doc : ~Expired(doc))

\* The collections of the fixed set in which a document had expired, in the
\* order of the set
Shrunk == SelectSeq(CollectionsToClean, LAMBDA c : Len(Kept(c)) < Len(data.before[c]))

RECURSIVE SumExpired(_)
SumExpired(k) ==
    IF k = 0 THEN 0
    ELSE SumExpired(k - 1) + Len(data.before[Shrunk[k]]) - Len(Kept(Shrunk[k]))

----------------------------------------------------------------------------
(* Claims about the audit log *)

\* the entries of before are the first entries of after, unchanged
StartsWith(after, before) ==
    /\ Len(before) <= Len(after)
    /\ \A k \in DOMAIN before : after[k] = before[k]

\* this step is a whole cleanup_old_data call
CleanupStep == pc = "idle" /\ pc' = "returned" /\ op' = "cleanup"

----------------------------------------------------------------------------
(* Claims about what the pipeline stores *)

\* The fields that hold a raw identifier or raw personal data
RawFields == {"student_id", "user_id"} \cup PiiFieldSet

\* C19: with anonymization switched on, no record that the ingestion
\* pipeline has stored contains a raw student identifier (student_id,
\* user_id) or another raw PII field.
C19_Original ==
    anonymization_enabled =>
        \A c \in Collections :
            \A j \in DOMAIN db[c] : DOMAIN db[c][j].v \cap RawFields = {}

----------------------------------------------------------------------------
(* Construction of PrivacyUtils and MongoDBClient in a task *)

\* A key as Fernet.generate_key() makes it and as ENCRYPTION_KEY should hold
\* it: 32 bytes in URL-safe base64, 43 characters and one "="
GoodKey == [i \in 1..44 |-> IF i = 44 THEN "=" ELSE "k"]

\* An ENCRYPTION_KEY that is no Fernet key
BadKey == <<"s", "e", "c", "r", "e", "t">>

BytesV(chars) == [t |-> "bytes", v |-> chars]

\* Fernet(key): the key decodes from URL-safe base64 to 32 bytes
FernetAccepts(key) ==
    /\ key.t \in {"str", "bytes"}
    /\ Len(key.v) = 44
    /\ key.v[44] = "="
    /\ \A i \in 1..43 : key.v[i] \in Letters \cup Digits \cup {"-", "_"}

\* EncryptionKey gone wrong: no temporary key is generated
EncryptionKeyRequired(env_key) ==
    IF env_key.t = "str" THEN BytesV(env_key.v) ELSE env_key

\* privacy_utils.py lines 27-34: self.encryption_key
EncryptionKey(env_key) ==
    LET key == IF env_key = NoneV \/ env_key = StrV(<<>>)
               THEN BytesV(GoodKey) ELSE env_key
    IN IF key.t = "str" THEN BytesV(key.v) ELSE key

\* PrivacyUtils.__init__ as far as it can fail: the key, or that it raised
PrivacyUtilsInit(env) ==
    LET key == EncryptionKey(env.ENCRYPTION_KEY)
    IN IF FernetAccepts(key) THEN Returned(key) ELSE Raised

Localhost == <<"l", "o", "c", "a", "l", "h", "o", "s", "t">>

DefaultPort == <<"2", "7", "0", "1", "7">>

\* int(os.getenv('MONGODB_PORT', 27017))
PortOf(value) ==
    IF value = NoneV THEN Returned(IntV(DefaultPort))
    ELSE IF value.v # <<>> /\ \A i \in DOMAIN value.v : value.v[i] \in Digits
         THEN Returned(IntV(value.v))
         ELSE Raised

\* MongoDBClient.__init__ with _connect: host and port, or that it raised;
\* the ping fails when no server answers at host:port
MongoDBClientInit(env, up) ==
    LET host == IF env.MONGODB_HOST = NoneV THEN StrV(Localhost) ELSE env.MONGODB_HOST
        port == PortOf(env.MONGODB_PORT)
    IN IF port.raised \/ ~up THEN Raised
       ELSE Returned([host |-> host, port |-> port.value])

\* A host name set in the environment
DbHost == <<"d", "b">>

\* The environment of the process
Environments ==
    {[t |-> "env", ENCRYPTION_KEY |-> k, MONGODB_HOST |-> h, MONGODB_PORT |-> p,
      encryption_key |-> NoneV, host |-> NoneV, port |-> NoneV] :
        k \in {NoneV, StrV(<<>>), StrV(GoodKey), StrV(BadKey)},
        h \in {NoneV, StrV(DbHost)},
        p \in {NoneV, StrV(DefaultPort), StrV(<<"a">>)}}

\* A task process has started and has constructed nothing yet
InitStartup ==
    /\ anonymization_enabled = FALSE
    /\ ferpa_enabled = FALSE
    /\ pc = "start"
    /\ op = "none"
    /\ records = <<>>
    /\ given = <<>>
    /\ result = NoResult
    /\ issued = {}
    /\ data \in Environments
    /\ db = [c \in Collections |-> <<>>]
    /\ audit_logs = <<>>
    /\ connected \in BOOLEAN
    /\ next_oid = 0

\* privacy_utils = PrivacyUtils(); the switches are not set in the
\* environment and default to 'true'
ConstructPrivacyUtils ==
    /\ pc = "start"
    /\ LET r == PrivacyUtilsInit(data)
       IN /\ pc' = IF r.raised THEN "failed" ELSE "privacy"
          /\ result' = r
          /\ data' = IF r.raised THEN data ELSE [data EXCEPT !.encryption_key = r.value]
          /\ anonymization_enabled' = ~r.raised
          /\ ferpa_enabled' = ~r.raised
    /\ op' = "PrivacyUtils"
    /\ UNCHANGED <<records, given, issued, db, audit_logs, connected, next_oid>>

\* mongo_client = MongoDBClient(); after it the task calls its operations
ConstructMongoDBClient ==
    /\ pc = "privacy"
    /\ LET r == MongoDBClientInit(data, connected)
       IN /\ pc' = IF r.raised THEN "failed" ELSE "idle"
          /\ result' = IF r.raised THEN r ELSE NoResult
          /\ data' = IF r.raised THEN data
                     ELSE [data EXCEPT !.host = r.value.host, !.port = r.value.port]
          /\ op' = IF r.raised THEN "MongoDBClient" ELSE "none"
    /\ UNCHANGED <<anonymization_enabled, ferpa_enabled, records, given, issued,
                   db, audit_logs, connected, next_oid>>

NextStartup ==
    \/ ConstructPrivacyUtils
    \/ ConstructMongoDBClient
    \/ CollectStudents
    \/ StoreCollected
    \/ Discard

SpecStartup == InitStartup /\ [][NextStartup]_vars

----------------------------------------------------------------------------
(* Claims about configuration errors *)

\* this step is PrivacyUtils()
PrivacyStep == pc = "start" /\ pc' # "start"

\* this step is MongoDBClient()
ClientStep == pc = "privacy" /\ pc' # "privacy"

\* C20: constructing the privacy component without encryption key material,
\* or the store without connection parameters, fails, and after a failed
\* construction nothing else happens in the process.
C20_Original ==
    [][/\ PrivacyStep /\ data.ENCRYPTION_KEY \in {NoneV, StrV(<<>>)} => pc' = "failed"
       /\ ClientStep /\ (data.MONGODB_HOST = NoneV \/ data.MONGODB_PORT = NoneV)
             => pc' = "failed"
       /\ pc # "failed"]_vars

\* C20, as the code has it: PrivacyUtils() fails exactly when ENCRYPTION_KEY
\* is set to something that is no Fernet key, and without ENCRYPTION_KEY it
\* succeeds with a key generated for this process; MongoDBClient() fails
\* exactly when MONGODB_PORT is set to something that is no integer or no
\* server answers the ping, and without MONGODB_HOST or MONGODB_PORT it
\* uses localhost and 27017; after a failed construction nothing else
\* happens in the process.
C20_Startup ==
    [][/\ PrivacyStep =>
             /\ pc' = "failed" <=>
                    /\ data.ENCRYPTION_KEY \notin {NoneV, StrV(<<>>)}
                    /\ ~FernetAccepts(data.ENCRYPTION_KEY)
             /\ pc' # "failed" =>
                    /\ FernetAccepts(data'.encryption_key)
                    /\ data.ENCRYPTION_KEY \notin {NoneV, StrV(<<>>)} =>
                          data'.encryption_key.v = data.ENCRYPTION_KEY.v
       /\ ClientStep =>
             /\ pc' = "failed" <=>
                    \/ ~connected
                    \/ /\ data.MONGODB_PORT # NoneV
                       /\ \E i \in DOMAIN data.MONGODB_PORT.v :
                              data.MONGODB_PORT.v[i] \notin Digits
             /\ pc' # "failed" =>
                    /\ data'.host = IF data.MONGODB_HOST = NoneV
                                    THEN StrV(Localhost) ELSE data.MONGODB_HOST
                    /\ data'.port = IF data.MONGODB_PORT = NoneV
                                    THEN IntV(DefaultPort)
                                    ELSE IntV(data.MONGODB_PORT.v)
       /\ pc # "failed"]_vars

\* C20 witness: in a process without ENCRYPTION_KEY, MONGODB_HOST and
\* MONGODB_PORT both components were constructed and a batch was anonymized
C20_Witness ==
    /\ pc = "anonymized"
    /\ records # <<>>
    /\ data.t = "env"
    /\ data.ENCRYPTION_KEY = NoneV
    /\ data.MONGODB_HOST = NoneV
    /\ data.MONGODB_PORT = NoneV
    /\ data.encryption_key # NoneV
    /\ data.host = StrV(Localhost)

----------------------------------------------------------------------------
(* CanvasCollector: _make_request, _paginate_request and get_students.     *)
(* The state of a collection is kept in `data`:                             *)
(*   server        what the API holds: the courses and their enrollments    *)
(*   endpoint      0: 'courses'; k: the enrollments of the k-th course      *)
(*   page, attempt the position of _paginate_request and of _make_request   *)
(*   tried         the responses to the attempts of this _make_request call *)
(*   outcome       what the finished _make_request call returned or raised  *)
(*   all_data      the list _paginate_request has built                     *)
(*   courses, all_students   the locals of get_students                     *)

\* self.max_retries
max_retries == 3

\* per_page of _paginate_request: 100 in the code, a small page here
per_page == 2

\* The value of a Retry-After header that gives a date
HttpDate == <<"W", "e", "d", ",", " ", "2", "1", " ", "O", "c", "t">>

\* The users of the API: an id and, for the first one, an email
User1 == DictV([id |-> IntV(Id1001), email |-> StrV(EmailJo)])
User2 == DictV([id |-> IntV(Id1002)])
User3 == DictV([id |-> IntV(<<"1", "0", "0", "3">>)])

\* What the API holds: one or two courses, each with one to three enrolled
\* users, so that a list ends on a page that is not full, on a full page, or
\* goes on to a second page
Servers ==
    {server \in [courses : {<<"c1">>, <<"c1", "c2">>},
                 enrollments : [{"c1", "c2"} -> {<<User1>>, <<User1, User2>>,
                                                 <<User2, User1, User3>>}]] :
        Len(server.courses) = 1 => server.enrollments["c2"] = <<User1>>}

\* The list an endpoint serves
Listing(server, endpoint) ==
    IF endpoint = 0 THEN server.courses
    ELSE server.enrollments[server.courses[endpoint]]

\* The page of a list that the parameters page and per_page select
PageOf(list, page) ==
    SubSeq(list, (page - 1) * per_page + 1,
           IF page * per_page < Len(list) THEN page * per_page ELSE Len(list))

\* What requests.get can come to: a response with a status, a Retry-After
\* header and a JSON body, or a ConnectionError
Responses(body) ==
    {[kind |-> "response", status |-> 200, retry_after |-> NoneV, body |-> ListV(body)],
     [kind |-> "response", status |-> 204, retry_after |-> NoneV, body |-> NoneV],
     [kind |-> "response", status |-> 401, retry_after |-> NoneV, body |-> NoneV],
     [kind |-> "response", status |-> 500, retry_after |-> NoneV, body |-> NoneV],
     [kind |-> "ConnectionError", status |-> 0, retry_after |-> NoneV, body |-> NoneV]}
    \cup {[kind |-> "response", status |-> 429, retry_after |-> h, body |-> NoneV] :
             h \in {NoneV, StrV(<<"5">>), StrV(HttpDate)}}

\* int(response.headers.get('Retry-After', 60)) raises ValueError
RetryAfterRaises(retry_after) ==
    /\ retry_after # NoneV
    /\ \/ retry_after.v = <<>>
       \/ \E i \in DOMAIN retry_after.v : retry_after.v[i] \notin Digits

\* The {} that _make_request returns when its loop has ended
EmptyMapping == DictV(<<>>)

\* lines 43-63, one pass of the loop: "return", "raise" (the exception
\* leaves _make_request) or "continue"
Attempt(response, attempt) ==
    IF response.kind = "ConnectionError"
    THEN IF attempt = max_retries - 1 THEN "raise" ELSE "continue"
    ELSE IF response.status = 200 THEN "return"
    ELSE IF response.status = 429
    THEN IF RetryAfterRaises(response.retry_after) THEN "raise" ELSE "continue"
    ELSE IF response.status = 401 THEN "raise"
    ELSE IF response.status >= 400
    THEN IF attempt = max_retries - 1 THEN "raise" ELSE "continue"
    ELSE "continue"

\* _make_request after one more attempt: it has returned or raised
\* (outcome), or it goes on to its next attempt
MakeRequest(st, response) ==
    LET step == Attempt(response, st.attempt)
        st1 == [st EXCEPT !.tried = Append(@, response), !.attempt = @ + 1]
    IN IF step = "return" THEN [st1 EXCEPT !.outcome = Returned(response.body)]
       ELSE IF step = "raise" THEN [st1 EXCEPT !.outcome = Raised]
       ELSE IF st1.attempt = max_retries
       THEN [st1 EXCEPT !.outcome = Returned(EmptyMapping)]
       ELSE st1

\* lines 163-177, of the fields of the record those the model follows
StudentData(user) ==
    DictV([student_id |-> user.v["id"],
           email |-> IF "email" \in DOMAIN user.v THEN user.v["email"] ELSE NoneV])

\* lines 158-177: the users of the enrollments that all_students has not yet
RECURSIVE AddStudents(_, _, _)
AddStudents(all_students, enrollments, k) ==
    IF k > Len(enrollments) THEN all_students
    ELSE AddStudents(
            IF \E j \in DOMAIN all_students :
                  all_students[j].v["student_id"] = enrollments[k].v["id"]
            THEN all_students
            ELSE Append(all_students, StudentData(enrollments[k])),
            enrollments, k + 1)

\* The next _paginate_request call of get_students starts
NextEndpoint(st) ==
    [st EXCEPT !.endpoint = @ + 1, !.page = 1, !.attempt = 0, !.tried = <<>>,
               !.outcome = NoneV, !.all_data = <<>>]

\* _paginate_request has returned all_data to get_students: the courses,
\* or the enrollments of one course; done tells that get_students returns
PaginateReturns(st, all_data) ==
    LET st1 == IF st.endpoint = 0 THEN [st EXCEPT !.courses = all_data]
               ELSE [st EXCEPT !.all_students = AddStudents(@, all_data, 1)]
    IN IF st1.endpoint = Len(st1.courses)
       THEN [st1 EXCEPT !.done = TRUE, !.all_data = all_data]
       ELSE NextEndpoint(st1)

\* PaginateRequest gone wrong: nothing is kept of a page
PaginateRequestDropping(st) ==
    PaginateReturns(st, st.all_data)

\* lines 80-96: _paginate_request takes up what _make_request came to
PaginateRequest(st) ==
    IF st.outcome.raised THEN PaginateReturns(st, st.all_data)
    ELSE IF DOMAIN st.outcome.value.v = {}
    THEN PaginateReturns(st, st.all_data)
    ELSE IF Len(st.outcome.value.v) < per_page
    THEN PaginateReturns(st, st.all_data \o st.outcome.value.v)
    ELSE [st EXCEPT !.all_data = @ \o st.outcome.value.v, !.page = @ + 1,
                    !.attempt = 0, !.tried = <<>>, !.outcome = NoneV]

\* get_students has been called and is about to send its first request
InitCollect ==
    /\ anonymization_enabled = TRUE
    /\ ferpa_enabled = TRUE
    /\ pc = "request"
    /\ op = "get_students"
    /\ records = <<>>
    /\ given = <<>>
    /\ result = NoResult
    /\ issued = {}
    /\ data \in {[t |-> "collect", server |-> server, endpoint |-> 0, page |-> 1,
                  attempt |-> 0, tried |-> <<>>, outcome |-> NoneV,
                  all_data |-> <<>>, courses |-> <<>>, all_students |-> <<>>,
                  done |-> FALSE] : server \in Servers}
    /\ db = [c \in Collections |-> <<>>]
    /\ audit_logs = <<>>
    /\ connected = TRUE
    /\ next_oid = 0

\* One attempt of _make_request, and what is left of the call when this
\* attempt ends it
Request ==
    /\ pc = "request"
    /\ \E response \in Responses(PageOf(Listing(data.server, data.endpoint), data.page)) :
          data' = MakeRequest(data, response)
    /\ pc' = IF data'.outcome = NoneV THEN "request" ELSE "responded"
    /\ UNCHANGED <<anonymization_enabled, ferpa_enabled, op, records, given, result,
                   issued, db, audit_logs, connected, next_oid>>

\* _paginate_request goes on after _make_request, up to its next request or
\* up to the return of get_students
Paginate ==
    /\ pc = "responded"
    /\ data' = PaginateRequest(data)
    /\ pc' = IF data'.done THEN "collected" ELSE "request"
    /\ records' = IF data'.done THEN data'.all_students ELSE records
    /\ result' = IF data'.done THEN Returned(data'.all_students) ELSE result
    /\ UNCHANGED <<anonymization_enabled, ferpa_enabled, op, given, issued, db,
                   audit_logs, connected, next_oid>>

\* collect_canvas_data: students_anonymized =
\* privacy_utils.anonymize_student_data(students)
AnonymizeCollected ==
    /\ pc = "collected"
    /\ \E clock \in Clocks(Len(records)) :
          Collected("canvas_students", records,
                    AnonymizeStudents(anonymization_enabled, records, clock))

NextCollect ==
    \/ Request
    \/ Paginate
    \/ AnonymizeCollected
    \/ StoreCollected
    \/ Discard

SpecCollect == InitCollect /\ [][NextCollect]_vars

----------------------------------------------------------------------------
(* Claims about the collector *)

\* a _make_request call has just returned or raised
Responded == pc = "responded" /\ data.t = "collect"

\* the k-th attempt of the call failed: a ConnectionError, or an error status
\* other than 401 and 429
FailedAttempt(k) ==
    \/ data.tried[k].kind = "ConnectionError"
    \/ data.tried[k].status >= 400 /\ data.tried[k].status \notin {401, 429}

\* every attempt of the call was answered 429
AllRateLimited == \A k \in DOMAIN data.tried : data.tried[k].status = 429

\* _make_request makes at most max_retries attempts; a 200 response ends
\* the call, which returns its body; a 401 response ends the call, which
\* raises; the call raises when its last attempt failed
AttemptsBounded ==
    /\ pc = "request" /\ data.t = "collect" => Len(data.tried) < max_retries
    /\ Responded =>
          /\ Len(data.tried) \in 1..max_retries
          /\ \A k \in DOMAIN data.tried :
                /\ data.tried[k].status = 200 =>
                      /\ k = Len(data.tried)
                      /\ ~data.outcome.raised
                      /\ data.outcome.value = data.tried[k].body
                /\ data.tried[k].status = 401 =>
                      k = Len(data.tried) /\ data.outcome.raised
          /\ Len(data.tried) = max_retries /\ FailedAttempt(max_retries)
                => data.outcome.raised

\* C30: _make_request ends after at most max_retries attempts: it returns
\* the body of the first 200 response, raises at once on a 401, raises after
\* the last failed attempt, and returns an empty mapping, without raising,
\* when every attempt was answered 429.
C30_Original ==
    /\ AttemptsBounded
    /\ Responded /\ AllRateLimited =>
          /\ Len(data.tried) = max_retries
          /\ ~data.outcome.raised
          /\ data.outcome.value = EmptyMapping

\* The students of all enrollments of all courses of the API
RECURSIVE AllStudents(_, _)
AllStudents(server, k) ==
    IF k = 0 THEN <<>>
    ELSE AddStudents(AllStudents(server, k - 1),
                     server.enrollments[server.courses[k]], 1)

\* C21: what get_students hands to its caller, and the caller to the
\* anonymizer, is the complete sequence of the students of the source,
\* never a sequence that holds only the pages fetched before a failure.
C21_Original ==
    /\ pc = "collected" => records = AllStudents(data.server, Len(data.server.courses))
    /\ pc = "anonymized" /\ data.t = "collect" =>
          given = AllStudents(data.server, Len(data.server.courses))

----------------------------------------------------------------------------
(* Claims about storage errors *)

\* a store_data call during which the connection was lost has ended
StoreLost == pc = "returned" /\ op = "store_losing"

\* C22: a store call during which the connection is lost, so that every
\* remaining write raises, raises: it does not return a counts result, with
\* an upsert key and without one.
C22_Original == StoreLost => result.raised

----------------------------------------------------------------------------
(* Claims about masking *)

\* s is an email address and nothing else
IsAddress(s) ==
    LET at == IndexOf(s, "@")
    IN /\ at > 1
       /\ AllIn(s, 1, at - 1, EmailLocalChars)
       /\ AllIn(s, at + 1, Len(s), EmailDomainChars)
       /\ SearchEmail(s)

\* The records of the call whose notes field holds an address and nothing
\* else
NotesAddress ==
    {i \in DOMAIN given :
        /\ IsDict(given[i])
        /\ "notes" \in DOMAIN given[i].v
        /\ IsStr(given[i].v["notes"])
        /\ IsAddress(given[i].v["notes"].v)}

\* m is s with the first and last character of the local part and the
\* domain kept and every other character of the local part replaced
EndsKept(s, m) ==
    LET at == IndexOf(s, "@")
    IN /\ Len(m) = Len(s)
       /\ \A k \in DOMAIN s :
             m[k] = IF 1 < k /\ k < at - 1 THEN "*" ELSE s[k]

\* m is s with the domain kept and every character of the local part
\* replaced
LocalReplaced(s, m) ==
    LET at == IndexOf(s, "@")
    IN /\ Len(m) = Len(s)
       /\ \A k \in DOMAIN s : m[k] = IF k < at THEN "*" ELSE s[k]

\* C23: an address, with a local part of whatever length, is masked to its
\* domain, the first and last character of its local part, and "*" for
\* every other character of the local part.
C23_Original ==
    Anonymized =>
        \A i \in NotesAddress :
            EndsKept(given[i].v["notes"].v, result.value[i].v["notes"].v)

\* C23, as the code has it: an address with a local part of more than two
\* characters is masked to its domain, the first and last character of its
\* local part, and "*" for every other character of the local part; of a
\* local part of one or two characters every character is replaced by "*".
C23_MaskEmail ==
    Anonymized =>
        \A i \in NotesAddress :
            LET s == given[i].v["notes"].v
                m == result.value[i].v["notes"].v
            IN IF IndexOf(s, "@") > 3 THEN EndsKept(s, m) ELSE LocalReplaced(s, m)

\* C23 witness: jo@x.com was masked to **@x.com, and in another field of the
\* record joe@x.com was encrypted as j*e@x.com
C23_Witness ==
    /\ Anonymized
    /\ op = "student"
    /\ \E i \in NotesAddress :
          /\ given[i].v["notes"].v = EmailJo
          /\ result.value[i].v["notes"].v =
                <<"*", "*", "@", "x", ".", "c", "o", "m">>
          /\ "email_encrypted" \in DOMAIN result.value[i].v
          /\ result.value[i].v["email_encrypted"].of =
                <<"j", "*", "e", "@", "x", ".", "c", "o", "m">>

\* C24: in anonymize_student_data the masking of the string fields of a
\* record is over before a PII field is hashed or encrypted: the value that
\* is hashed or encrypted for a PII field is the field's value after
\* masking, and every other field of the record is on the output with its
\* masked value.
C24_MaskedFirst ==
    Anonymized /\ op = "student" =>
        \A i \in DOMAIN given :
            /\ \A f \in PiiOn(i) :
                  LET derived == IF f \in sensitive_fields
                                 THEN result.value[i].v[f \o "_encrypted"]
                                 ELSE result.value[i].v[f \o "_hash"]
                  IN derived.of = PyStr(MaskValue(given[i].v[f]))
            /\ \A k \in DOMAIN given[i].v \ PiiOn(i) :
                  \/ k \in {x \o "_encrypted" : x \in PiiOn(i)}
                             \cup {x \o "_hash" : x \in PiiOn(i)}
                  \/ result.value[i].v[k] = MaskValue(given[i].v[k])

\* C24 witness: a record whose email john@x.com was encrypted as j**n@x.com
C24_Witness ==
    /\ Anonymized
    /\ op = "student"
    /\ \E i \in DOMAIN given :
          /\ "email" \in PiiOn(i)
          /\ given[i].v["email"] = StrV(EmailJohn)
          /\ result.value[i].v["email_encrypted"].of =
                <<"j", "*", "*", "n", "@", "x", ".", "c", "o", "m">>

\* The string fields of the output records that still hold a substring
\* matching the email, phone or national-ID pattern
Unmasked ==
    {<<i, k>> \in (DOMAIN result.value) \X {"notes", "email", "name", "student_id"} :
        /\ k \in DOMAIN result.value[i].v
        /\ \E kind \in {"email", "phone", "ssn"} :
              ReSearch(kind, result.value[i].v[k])}

\* C25: after an anonymize operation no top-level string field of an output
\* record holds a substring that matches the email, phone or national-ID
\* pattern, also when the original value held patterns of more than one
\* kind.
C25_Original == Anonymized => Unmasked = {}

----------------------------------------------------------------------------
(* Claims about the inserted count *)

\* a store_data call without an upsert key has returned while the store
\* could be reached
PlainStored == Stored /\ data.upsert_key = "" /\ connected

\* C27: the inserted count that a store call without an upsert key returns
\* is the number of documents the call added to the collection, also when
\* the bulk insert failed part-way and the records were inserted one at a
\* time.
C27_Original ==
    PlainStored =>
        result.value.inserted = Len(db[data.collection]) - Len(data.before)

----------------------------------------------------------------------------
(* Claims about running a task again *)

\* A stored document without what differs from one run of a task to the
\* next for the same source record: the _id, the time of anonymization and
\* the initialization vector of an encrypted value
SourceOf(doc) ==
    [k \in DOMAIN doc.v \ {"_id", "anonymized_at"} |->
        IF doc.v[k].t = "fernet" THEN [t |-> "fernet", of |-> doc.v[k].of]
        ELSE doc.v[k]]

\* An ingestion task has stored, as the DAG does without an upsert key, the
\* records of the source records that an earlier run of the task had left
\* in the collection
RanAgain ==
    /\ pc = "returned"
    /\ op = "ingest"
    /\ data.upsert_key = ""
    /\ connected
    /\ data.before # <<>>
    /\ Len(data.before) = Len(data.stored)
    /\ \A i \in DOMAIN data.before :
          SourceOf(data.before[i]) = SourceOf(data.stored[i])

\* C28: after an ingestion task has run a second time with the same source
\* records, its collection holds the documents it held after the first
\* run: no record is stored twice, in attendance_records as in the
\* collections with a unique index.
C28_Original == RanAgain => Len(db[data.collection]) = Len(data.before)

----------------------------------------------------------------------------
(* Claims about looking a student up by pseudonym *)

\* a get_student_data call with a pseudonym, as the dashboard passes it, has
\* returned, and no probe of it failed
GotByPseudonym ==
    /\ GotStudent
    /\ data.student_id.t = "anon"
    /\ Probed \cap data.failing = {}

\* The probed collections that store documents of the student asked for
StoringStudent == {c \in Probed : MatchOn(c, "anonymous_id") # <<>>}

\* C29: a get_student_data call with the anonymous_id of a student returns,
\* for every probed collection that stores documents with that
\* anonymous_id, these documents.
C29_Original ==
    GotByPseudonym =>
        \A c \in StoringStudent :
            /\ c \in DOMAIN result.value
            /\ result.value[c] = MatchOn(c, "anonymous_id")

----------------------------------------------------------------------------
(* The DAG student_data_ingestion: a run of its eight tasks *)

\* default_args: 'retries'
retries == 2

CollectionTasks ==
    {"collect_canvas_data", "collect_moodle_data", "collect_attendance_data",
     "collect_library_data"}

Tasks ==
    {"validate_environment", "validate_collected_data", "create_data_lineage",
     "send_completion_notification"} \cup CollectionTasks

\* Upstream gone wrong: validate_collected_data waits for the Canvas task
\* only
UpstreamCanvasOnly(task) ==
    CASE task = "validate_environment" -> {}
      [] task \in CollectionTasks -> {"validate_environment"}
      [] task = "validate_collected_data" -> {"collect_canvas_data"}
      [] task = "create_data_lineage" -> {"validate_collected_data"}
      [] task = "send_completion_notification" -> {"create_data_lineage"}

\* The task dependencies: the tasks on the left of a >> whose right side
\* holds the task
Upstream(task) ==
    CASE task = "validate_environment" -> {}
      [] task \in CollectionTasks -> {"validate_environment"}
      [] task = "validate_collected_data" -> CollectionTasks
      [] task = "create_data_lineage" -> {"validate_collected_data"}
      [] task = "send_completion_notification" -> {"create_data_lineage"}

\* The tasks that end with store_data calls
StoringTasks == CollectionTasks \cup {"create_data_lineage"}

\* The collection a task stores its anonymized records in; for
\* create_data_lineage the collection of its record
TargetOf(task) ==
    CASE task = "collect_canvas_data" -> "canvas_students"
      [] task = "collect_moodle_data" -> "moodle_users"
      [] task = "collect_attendance_data" -> "attendance_records"
      [] task = "collect_library_data" -> "library_checkouts"
      [] task = "create_data_lineage" -> "data_lineage"

\* The lists of courses, enrollments, assignments, submissions, grades,
\* activities, sessions, digital accesses and resources that the collectors
\* return are empty in the model
NoRecords == <<>>

StoreArgs(collection, docs) == [collection |-> collection, docs |-> docs]

\* The store_data calls of a task, in the order of the code; anonymized is
\* the list its anonymize call returned, for create_data_lineage the list
\* of its record
Stores(task, anonymized) ==
    CASE task = "collect_canvas_data" ->
            <<StoreArgs("canvas_courses", NoRecords),
              StoreArgs("canvas_students", anonymized),
              StoreArgs("canvas_enrollments", NoRecords),
              StoreArgs("canvas_assignments", NoRecords),
              StoreArgs("canvas_submissions", NoRecords),
              StoreArgs("canvas_grades", NoRecords)>>
      [] task = "collect_moodle_data" ->
            <<StoreArgs("moodle_courses", NoRecords),
              StoreArgs("moodle_users", anonymized),
              StoreArgs("moodle_enrollments", NoRecords),
              StoreArgs("moodle_activities", NoRecords),
              StoreArgs("moodle_grades", NoRecords)>>
      [] task = "collect_attendance_data" ->
            <<StoreArgs("attendance_records", anonymized),
              StoreArgs("class_sessions", NoRecords)>>
      [] task = "collect_library_data" ->
            <<StoreArgs("library_checkouts", anonymized),
              StoreArgs("library_digital_access", NoRecords),
              StoreArgs("library_resources", NoRecords)>>
      [] task = "create_data_lineage" ->
            <<StoreArgs("data_lineage", anonymized)>>

\* The collections the tasks write
DagCollections ==
    UNION {{Stores(task, <<>>)[k].collection : k \in DOMAIN Stores(task, <<>>)} :
              task \in StoringTasks}

\* The anonymize call of a collection task
AnonymizedBy(task, enabled, batch, clock) ==
    CASE task \in {"collect_canvas_data", "collect_moodle_data"} ->
            AnonymizeStudents(enabled, batch, clock)
      [] task = "collect_attendance_data" ->
            AnonymizeAttendance(enabled, batch, clock)
      [] task = "collect_library_data" ->
            AnonymizeLibrary(enabled, batch, clock)

\* What a collector returns for the records of students: nothing, or one
\* record
DagBatches == {<<>>, <<DictV([student_id |-> IntV(Id1001), email |-> StrV(EmailJo)])>>}

\* The readings of the clock during a run
DagTimes == {IsoFormat(Instant(1, 0))}

\* The most tries of collection tasks that a run loses to a collector that
\* raises
MaxCollectorFailures == 1

RECURSIVE SumTries(_, _)
SumTries(tries, tasks) ==
    IF tasks = {} THEN 0
    ELSE LET task == CHOOSE x \in tasks : TRUE
         IN tries[task] + SumTries(tries, tasks \ {task})

RunId == <<"r", "1">>

\* lineage_record
LineageRecord(now) ==
    DictV([run_id |-> StrV(RunId),
           compliance_status |-> StrV(<<"F", "E", "R", "P", "A", "_", "c", "o", "m",
                                        "p", "l", "i", "a", "n", "t">>),
           created_at |-> StrV(now)])

\* A run has been created: no task has started. env tells whether the
\* required environment variables are set.
InitDag ==
    /\ anonymization_enabled \in BOOLEAN
    /\ ferpa_enabled = anonymization_enabled
    /\ pc = "dag"
    /\ op = "none"
    /\ records = <<>>
    /\ given = <<>>
    /\ result = NoResult
    /\ issued = {}
    /\ \E env \in BOOLEAN :
          data = [t |-> "dag", env |-> env,
                  state |-> [task \in Tasks |-> "none"],
                  tries |-> [task \in Tasks |-> 0],
                  at |-> [task \in StoringTasks |-> "none"],
                  collected |-> [task \in StoringTasks |-> <<>>],
                  local |-> [task \in StoringTasks |-> <<>>]]
    /\ db = [c \in DagCollections |-> <<>>]
    /\ audit_logs = <<>>
    /\ connected \in BOOLEAN
    /\ next_oid = 0

\* The scheduler starts a task, for the first time or again after a failed
\* try, when all its upstream tasks have succeeded
Start ==
    /\ pc = "dag"
    /\ \E task \in Tasks :
          /\ data.state[task] \in {"none", "up_for_retry"}
          /\ \A u \in Upstream(task) : data.state[u] = "success"
          /\ data' = [data EXCEPT !.state[task] = "running"]
          /\ op' = task
    /\ UNCHANGED <<anonymization_enabled, ferpa_enabled, pc, records, given, result,
                   issued, db, audit_logs, connected, next_oid>>

\* The callable of the task raised: the task is tried again until it has
\* failed retries + 1 times
Failed(d, task) ==
    [d EXCEPT !.tries[task] = @ + 1,
              !.state[task] = IF d.tries[task] + 1 > retries THEN "failed"
                              ELSE "up_for_retry"]

Succeeded(d, task) == [d EXCEPT !.state[task] = "success"]

\* validate_environment: raises when a required variable is missing or the
\* store cannot be reached
ValidateEnvironment ==
    /\ pc = "dag"
    /\ data.state["validate_environment"] = "running"
    /\ data' = IF data.env /\ connected
               THEN Succeeded(data, "validate_environment")
               ELSE Failed(data, "validate_environment")
    /\ op' = "validate_environment"
    /\ UNCHANGED <<anonymization_enabled, ferpa_enabled, pc, records, given, result,
                   issued, db, audit_logs, connected, next_oid>>

\* What the first half of a collection task leaves: the records collected
\* and the list the anonymize call returned, or a failed try
Prepared(task, batch, call) ==
    /\ data' = IF call.raised THEN Failed(data, task)
               ELSE [data EXCEPT !.at[task] = "store",
                                 !.collected[task] = batch,
                                 !.local[task] = call.value]
    /\ issued' = issued \cup IssuedBy(batch, call)

\* A collection task up to its anonymize call: the collector is
\* constructed and its getters run, PrivacyUtils and MongoDBClient are
\* constructed, the records are anonymized. A getter or a constructor that
\* raises ends the try.
CollectAndAnonymize ==
    /\ pc = "dag"
    /\ \E task \in CollectionTasks :
          /\ data.state[task] = "running"
          /\ data.at[task] = "none"
          /\ op' = task
          /\ \/ /\ ~connected \/ SumTries(data.tries, CollectionTasks) < MaxCollectorFailures
                /\ data' = Failed(data, task)
                /\ UNCHANGED issued
             \/ /\ connected
                /\ \E batch \in DagBatches, now \in DagTimes :
                      Prepared(task, batch,
                               AnonymizedBy(task, anonymization_enabled, batch,
                                            [i \in DOMAIN batch |-> now]))
    /\ UNCHANGED <<anonymization_enabled, ferpa_enabled, pc, records, given, result,
                   db, audit_logs, connected, next_oid>>

\* create_data_lineage up to its store_data call
BuildLineage ==
    /\ pc = "dag"
    /\ data.state["create_data_lineage"] = "running"
    /\ data.at["create_data_lineage"] = "none"
    /\ op' = "create_data_lineage"
    /\ \/ /\ ~connected
          /\ data' = Failed(data, "create_data_lineage")
       \/ /\ connected
          /\ \E now \in DagTimes :
                data' = [data EXCEPT !.at["create_data_lineage"] = "store",
                                     !.local["create_data_lineage"] =
                                         <<LineageRecord(now)>>]
    /\ UNCHANGED <<anonymization_enabled, ferpa_enabled, pc, records, given, result,
                   issued, db, audit_logs, connected, next_oid>>

\* The store after one more store_data call that returned r
AfterStore(st, collection, r) ==
    [db |-> [st.db EXCEPT ![collection] = r.coll], log |-> r.log, oid |-> r.oid]

\* The store_data calls stores[k], stores[k + 1], ... one after the other
RECURSIVE StoreAll(_, _, _, _)
StoreAll(stores, k, st, up) ==
    IF k > Len(stores) THEN st
    ELSE StoreAll(stores, k + 1,
                  AfterStore(st, stores[k].collection,
                             StoreData(stores[k].collection,
                                       st.db[stores[k].collection], st.log,
                                       stores[k].docs, "", st.oid, up)),
                  up)

TaskStored(task, st) ==
    /\ db' = st.db
    /\ audit_logs' = st.log
    /\ next_oid' = st.oid
    /\ data' = [Succeeded(data, task) EXCEPT !.at[task] = "stored"]
    /\ op' = task

\* The second half of a collection task and of create_data_lineage: its
\* store_data calls, after which the callable returns
StoreTask ==
    /\ pc = "dag"
    /\ \E task \in StoringTasks :
          /\ data.state[task] = "running"
          /\ data.at[task] = "store"
          /\ TaskStored(task,
                        StoreAll(Stores(task, data.local[task]), 1,
                                 [db |-> db, log |-> audit_logs, oid |-> next_oid],
                                 connected))
    /\ UNCHANGED <<anonymization_enabled, ferpa_enabled, pc, records, given, result,
                   issued, connected>>

\* validate_collected_data: raises when the store cannot be reached; a
\* collection that cannot be read or validated is logged
ValidateCollectedData ==
    /\ pc = "dag"
    /\ data.state["validate_collected_data"] = "running"
    /\ data' = IF connected THEN Succeeded(data, "validate_collected_data")
               ELSE Failed(data, "validate_collected_data")
    /\ op' = "validate_collected_data"
    /\ UNCHANGED <<anonymization_enabled, ferpa_enabled, pc, records, given, result,
                   issued, db, audit_logs, connected, next_oid>>

\* send_completion_notification: logs the summary; an exception is logged
\* and not raised
SendCompletionNotification ==
    /\ pc = "dag"
    /\ data.state["send_completion_notification"] = "running"
    /\ data' = Succeeded(data, "send_completion_notification")
    /\ op' = "send_completion_notification"
    /\ UNCHANGED <<anonymization_enabled, ferpa_enabled, pc, records, given, result,
                   issued, db, audit_logs, connected, next_oid>>

\* The connection to the server is lost during the run
ConnectionLost ==
    /\ pc = "dag"
    /\ connected
    /\ connected' = FALSE
    /\ UNCHANGED <<anonymization_enabled, ferpa_enabled, pc, op, records, given,
                   result, issued, data, db, audit_logs, next_oid>>

NextDag ==
    \/ Start
    \/ ValidateEnvironment
    \/ CollectAndAnonymize
    \/ BuildLineage
    \/ StoreTask
    \/ ValidateCollectedData
    \/ SendCompletionNotification
    \/ ConnectionLost

SpecDag == InitDag /\ [][NextDag]_vars

----------------------------------------------------------------------------
(* Claims about the order of the tasks *)

\* The task has been started at least once
Started(task) == data.state[task] # "none"

\* The callable of the task has returned
Done(task) == data.state[task] = "success"

\* The documents of a collection as they were passed to store_data
Passed(collection) ==
    {DictV(DictDel(db[collection][j].v, "_id")) : j \in DOMAIN db[collection]}

\* The task stored what its anonymize call returned for the records it had
\* collected, and stored nothing before that call had returned
AnonymizedFirst(task) ==
    /\ data.at[task] # "stored" => db[TargetOf(task)] = <<>>
    /\ data.at[task] # "none" =>
          \E now \in DagTimes :
              data.local[task] =
                  AnonymizedBy(task, anonymization_enabled, data.collected[task],
                               [i \in DOMAIN data.collected[task] |-> now]).value
    /\ Passed(TargetOf(task)) \subseteq
          {data.local[task][i] : i \in DOMAIN data.local[task]}

\* C26: in a run no collection task starts before validate_environment has
\* succeeded; validate_collected_data does not start before all four
\* collection tasks have succeeded and stored; data_lineage holds at most
\* one document, written after validate_collected_data has succeeded, and
\* the notification does not start before create_data_lineage has stored
\* and succeeded, after which data_lineage holds one document when the
\* store can be reached; a collection task stores what its anonymize call
\* returned for the records it collected, and nothing before.
C26_TaskOrder ==
    /\ \A task \in CollectionTasks :
          /\ Started(task) => Done("validate_environment")
          /\ AnonymizedFirst(task)
    /\ Started("validate_collected_data") =>
          \A task \in CollectionTasks : Done(task) /\ data.at[task] = "stored"
    /\ Len(db["data_lineage"]) <= 1
    /\ db["data_lineage"] # <<>> => Done("validate_collected_data")
    /\ Started("send_completion_notification") =>
          /\ Done("create_data_lineage")
          /\ data.at["create_data_lineage"] = "stored"
          /\ connected => Len(db["data_lineage"]) = 1

\* C26 witness: the notification was sent at the end of a run in which a
\* collection task was tried again, every collection task stored a record
\* with an anonymous_id and without the email address, and data_lineage
\* holds the document of the run
C26_Witness ==
    /\ Done("send_completion_notification")
    /\ anonymization_enabled
    /\ \E task \in CollectionTasks : data.tries[task] > 0
    /\ \A task \in CollectionTasks :
          /\ data.collected[task] # <<>>
          /\ Len(db[TargetOf(task)]) = 1
          /\ "anonymous_id" \in DOMAIN db[TargetOf(task)][1].v
          /\ "email" \notin DOMAIN db[TargetOf(task)][1].v
    /\ Len(db["data_lineage"]) = 1

NextClient ==
    \/ StoreCall
    \/ GetCall
    \/ GetStudentCall
    \/ CleanupCall
    \/ LoseConnection
    \/ Discard

SpecClient == Init /\ [][NextClient]_vars

====
